---------------------------- MODULE Spec2Model ----------------------------
(***************************************************************************)
(* Token discovery engine of sol-track (src/src/utils/helius.ts, the        *)
(* time-range variant of the same file, src/unnamed/part_002, and the      *)
(* token-list variant, src/unnamed/part_006).                              *)
(*                                                                         *)
(* Strings are sequences of code units (natural numbers): "BONK" is        *)
(* <<66, 79, 78, 75>>.  Remote services are the environment: what they     *)
(* hold is fixed by the definitions of the section "Remote world", whether *)
(* an attempt fails is chosen by the actions.                              *)
(***************************************************************************)
EXTENDS Integers, Sequences, FiniteSets, TLC

VARIABLES
    rt,        \* one running call of retryWithBackoff, and the log of fn's attempts
    cache,     \* transactionCache: the Map's entries in insertion order
    srch,      \* the searchTokens calls: srch[s] is the state of call s
    clock,     \* number of cache insertions so far (stamps the entries)
    probe,     \* one call of matchesTokenQuery: its arguments and its result
    fast,      \* one call of the token-list searchTokens (src/unnamed/part_006)
    res,       \* one call of getTokenInfoFromMint, its two fetches running side by side
    det        \* one call of getTokenDetails (helius.ts)

vars == <<rt, cache, srch, clock, probe, fast, res, det>>

(***************************************************************************)
(* Strings                                                                 *)
(***************************************************************************)
Min(a, b) == IF a <= b THEN a ELSE b

RECURSIVE Pow(_, _)
Pow(b, e) == IF e = 0 THEN 1 ELSE b * Pow(b, e - 1)

\* String.prototype.toLowerCase on one code unit (ASCII and Latin-1 letters).
LowerChar(c) ==
    IF (c >= 65 /\ c <= 90) \/ (c >= 192 /\ c <= 222 /\ c # 215) THEN c + 32 ELSE c

ToLower(s) == [i \in 1..Len(s) |-> LowerChar(s[i])]

\* \s of a regular expression, within the code units the model uses.
IsSpace(c) == c \in {9, 10, 11, 12, 13, 32, 160}

RECURSIVE TrimStart(_)
TrimStart(s) ==
    IF s # <<>> /\ IsSpace(Head(s)) THEN TrimStart(Tail(s)) ELSE s

RECURSIVE TrimEnd(_)
TrimEnd(s) ==
    IF s # <<>> /\ IsSpace(s[Len(s)]) THEN TrimEnd(SubSeq(s, 1, Len(s) - 1)) ELSE s

\* String.prototype.trim
Trim(s) == TrimEnd(TrimStart(s))

\* String.prototype.includes: t occurs in s (the empty string occurs in every string).
Includes(s, t) ==
    \E i \in 0..(Len(s) - Len(t)) : SubSeq(s, i + 1, i + Len(t)) = t

\* String.prototype.startsWith
StartsWith(s, t) == Len(t) <= Len(s) /\ SubSeq(s, 1, Len(t)) = t

\* A separator of the regular expression /[\s_-]+/ .
IsSep(c) == IsSpace(c) \/ c = 95 \/ c = 45

\* s.split(/[\s_-]+/): a run of separators ends a word; the word before a leading
\* run and the word after a trailing run are empty strings, and "" gives [""].
RECURSIVE SplitFrom(_, _, _, _)
SplitFrom(s, i, cur, acc) ==
    IF i > Len(s) THEN Append(acc, cur)
    ELSE IF IsSep(s[i])
         THEN IF i > 1 /\ IsSep(s[i - 1])
              THEN SplitFrom(s, i + 1, cur, acc)
              ELSE SplitFrom(s, i + 1, <<>>, Append(acc, cur))
         ELSE SplitFrom(s, i + 1, Append(cur, s[i]), acc)

SplitWords(s) == SplitFrom(s, 1, <<>>, <<>>)

\* Array.prototype.includes on an array of strings.
HasWord(words, w) == \E i \in 1..Len(words) : words[i] = w

STR_UNKNOWN == <<85, 110, 107, 110, 111, 119, 110>>             \* "Unknown"
STR_RATE_LIMIT == <<114, 97, 116, 101, 32, 108, 105, 109, 105, 116>>   \* "rate limit"

(***************************************************************************)
(* matchesTokenQuery and sanitizeTokenText (helius.ts)                     *)
(***************************************************************************)
matchesTokenQuery_NoTrim(query0, name0, symbol0, address0) ==
    LET query == ToLower(query0)
        name == ToLower(name0)
        symbol == ToLower(symbol0)
        address == ToLower(address0)
        queryWords == SplitWords(query)
        nameWords == SplitWords(name)
        symbolWords == SplitWords(symbol)
    IN  IF symbol = query \/ name = query \/ address = query THEN TRUE
        ELSE IF Len(query) <= 5
        THEN Includes(symbol, query) \/ Includes(query, symbol) \/ StartsWith(name, query)
        ELSE IF \E k \in 1..Len(queryWords) :
                    /\ Len(queryWords[k]) >= 2
                    /\ (HasWord(symbolWords, queryWords[k]) \/ HasWord(nameWords, queryWords[k]))
        THEN TRUE
        ELSE \/ Includes(symbol, query)
             \/ Includes(name, query)
             \/ (Len(query) > 10 /\ Includes(address, query))

matchesTokenQuery(query0, name0, symbol0, address0) ==
    LET query == Trim(ToLower(query0))
        name == Trim(ToLower(name0))
        symbol == Trim(ToLower(symbol0))
        address == Trim(ToLower(address0))
        queryWords == SplitWords(query)
        nameWords == SplitWords(name)
        symbolWords == SplitWords(symbol)
    IN  IF symbol = query \/ name = query \/ address = query THEN TRUE
        ELSE IF Len(query) <= 5
        THEN Includes(symbol, query) \/ Includes(query, symbol) \/ StartsWith(name, query)
        ELSE IF \E k \in 1..Len(queryWords) :
                    /\ Len(queryWords[k]) >= 2
                    /\ (HasWord(symbolWords, queryWords[k]) \/ HasWord(nameWords, queryWords[k]))
        THEN TRUE
        ELSE \/ Includes(symbol, query)
             \/ Includes(name, query)
             \/ (Len(query) > 10 /\ Includes(address, query))

\* /[^\x20-\x7E]/ : not printable ASCII
IsPrintable(c) == c >= 32 /\ c <= 126

\* /[\w\s-]/ : a word character, white space or a dash
IsWordSpaceDash(c) ==
    \/ (c >= 48 /\ c <= 57) \/ (c >= 65 /\ c <= 90) \/ (c >= 97 /\ c <= 122)
    \/ c = 95 \/ IsSpace(c) \/ c = 45

sanitizeTokenText(text) ==
    LET printable == SelectSeq(text, IsPrintable)
        cleaned == Trim(SelectSeq(printable, IsWordSpaceDash))
    IN  IF Len(cleaned) < 2 THEN STR_UNKNOWN ELSE cleaned


\* matchesTokenQuery of part_002 (lines 97-172).
Variations(word) ==
    { word,
      Append(word, 115),                                                   \* word + 's'
      IF word # <<>> /\ word[Len(word)] = 115
      THEN SubSeq(word, 1, Len(word) - 1) ELSE word,                       \* word.replace(/s$/, '')
      Append(word, 50), Append(word, 51),                                  \* word + '2', word + '3'
      word \o <<105, 110, 117>>,                                           \* word + 'inu'
      word \o <<115, 111, 108>>,                                           \* word + 'sol'
      <<115, 111, 108>> \o word,                                           \* 'sol' + word
      word \o <<99, 111, 105, 110>>,                                       \* word + 'coin'
      word \o <<116, 111, 107, 101, 110>> }                                \* word + 'token'

CommonPatterns(query) ==
    { query \o <<105, 110, 117>>, query \o <<115, 111, 108>>, <<115, 111, 108>> \o query,
      query \o <<99, 111, 105, 110>>, query \o <<116, 111, 107, 101, 110>>,
      Append(query, 50), Append(query, 51) }

matchesTokenQueryRange(query0, name0, symbol0, address0) ==
    LET query == Trim(ToLower(query0))
        name == Trim(ToLower(name0))
        symbol == Trim(ToLower(symbol0))
        address == Trim(ToLower(address0))
        queryWords == SplitWords(query)
        nameWords == SplitWords(name)
        symbolWords == SplitWords(symbol)
        WordHit(word) ==
            \/ \E v \in Variations(word) : Includes(name, v) \/ Includes(symbol, v)
            \/ \E i \in 1..Len(nameWords) :
                   Includes(nameWords[i], word) \/ Includes(word, nameWords[i])
            \/ \E i \in 1..Len(symbolWords) :
                   Includes(symbolWords[i], word) \/ Includes(word, symbolWords[i])
    IN  \/ symbol = query \/ name = query \/ address = query
        \/ \E k \in 1..Len(queryWords) : Len(queryWords[k]) >= 2 /\ WordHit(queryWords[k])
        \/ \E p \in CommonPatterns(query) : Includes(name, p) \/ Includes(symbol, p)
        \/ Includes(symbol, query) \/ Includes(query, symbol)
        \/ Includes(name, query) \/ Includes(address, query)

\* The matcher of each variant of the file.
Matches(variant, query, name, symbol, address) ==
    IF variant = "staged" THEN matchesTokenQuery(query, name, symbol, address)
    ELSE matchesTokenQueryRange(query, name, symbol, address)

\* No call of matchesTokenQuery under way.
ProbeIdle ==
    [pc |-> "idle", query |-> <<>>, name |-> <<>>, symbol |-> <<>>, address |-> <<>>,
     result |-> FALSE, first |-> FALSE, calls |-> 0]

\* No call of the token-list searchTokens under way.  passes and resolution record,
\* for the properties, the aggregator passes that have issued their first remote call
\* and how the resolution of the query as an address ended.
FastIdle ==
    [pc |-> "idle", query |-> <<>>, results |-> <<>>, returned |-> <<>>, outcome |-> "none",
     jupiterToken |-> <<>>, createdAt |-> 0 - 1, tokens |-> <<>>, todo |-> {}, mints |-> <<>>,
     passes |-> {}, resolution |-> "none"]

(***************************************************************************)
(* retryWithBackoff (helius.ts)                                            *)
(***************************************************************************)
MaxRetries == 3          \* largest retry budget explored (the call sites pass 1, 2 and 3)

ERR_RATE == <<82, 97, 116, 101, 32, 108, 105, 109, 105, 116, 32, 101, 120, 99, 101, 101, 100, 101, 100>>  \* "Rate limit exceeded"
ERR_TIMEOUT == <<116, 105, 109, 101, 111, 117, 116>>   \* "timeout"
ERR_OTHER == <<98, 111, 111, 109>>                     \* "boom"
NoError == <<>>                                        \* lastError = null

ErrorMessages == {ERR_RATE, ERR_TIMEOUT, ERR_OTHER}
Values == {"v1", "v2"}                \* what fn may resolve to
Jitters == {0, 500, 999}              \* Math.random() * 1000, in [0, 1000)
BaseDelays == {500, 1000}
MaxDelays == {2000, 10000}

Ok(v) == [ok |-> TRUE, value |-> v, error |-> NoError]
Fail(e) == [ok |-> FALSE, value |-> "none", error |-> e]

\* What one attempt of fn may do.
AttemptOutcomes == {Ok(v) : v \in Values} \cup {Fail(e) : e \in ErrorMessages}

\* The state on entry of retryWithBackoff: i = 0, lastError = null.
RetryStart(retries, baseDelay, maxDelay) ==
    [pc |-> "call", retries |-> retries, baseDelay |-> baseDelay, maxDelay |-> maxDelay,
     i |-> 0, lastError |-> NoError, status |-> "running", result |-> "none",
     raised |-> NoError, delayMs |-> 0, log |-> <<>>]

RetryIdle == [RetryStart(0, 0, 0) EXCEPT !.pc = "idle"]

\* No call of getTokenInfoFromMint under way.
ResIdle ==
    [pc |-> "idle", mint |-> "GONE", tokenInfo |-> RetryIdle, metadataInfo |-> RetryIdle,
     outcome |-> "none"]

\* The delay before the next attempt (lines 82-91).
RetryDelay(r, error, jitter) ==
    LET exponentialDelay == Min(r.baseDelay * Pow(2, r.i) + jitter, r.maxDelay)
    IN  IF Includes(ToLower(error), STR_RATE_LIMIT)
        THEN exponentialDelay * 2
        ELSE exponentialDelay

\* The loop with the last error forgotten once one is recorded (lastError ??= error).
RetryOnAttempt_FirstError(r, out, jitter) ==
    LET called == [r EXCEPT !.log = Append(@, out)]
        kept == IF r.lastError = NoError THEN out.error ELSE r.lastError
    IN  IF out.ok
        THEN [called EXCEPT !.status = "returned", !.result = out.value, !.pc = "done"]
        ELSE IF r.i = r.retries
        THEN [called EXCEPT !.lastError = kept, !.raised = kept,
                            !.status = "thrown", !.pc = "done"]
        ELSE [called EXCEPT !.lastError = kept,
                            !.delayMs = RetryDelay(r, out.error, jitter),
                            !.pc = "sleep"]

\* The loop with `await fn()` in place of `return await fn()`: only the last
\* iteration's value is returned.
RetryOnAttempt_NoReturn(r, out, jitter) ==
    LET called == [r EXCEPT !.log = Append(@, out)]
    IN  IF out.ok
        THEN IF r.i = r.retries
             THEN [called EXCEPT !.status = "returned", !.result = out.value, !.pc = "done"]
             ELSE [called EXCEPT !.result = out.value, !.pc = "sleep"]
        ELSE IF r.i = r.retries
        THEN [called EXCEPT !.lastError = out.error, !.raised = out.error,
                            !.status = "thrown", !.pc = "done"]
        ELSE [called EXCEPT !.lastError = out.error,
                            !.delayMs = RetryDelay(r, out.error, jitter),
                            !.pc = "sleep"]

\* One iteration of the loop (lines 72-94): fn is awaited and resolves or rejects as
\* `out` says; `raised` is the error thrown by line 79 (lastError).
RetryOnAttempt(r, out, jitter) ==
    LET called == [r EXCEPT !.log = Append(@, out)]
    IN  IF out.ok
        THEN [called EXCEPT !.status = "returned", !.result = out.value, !.pc = "done"]
        ELSE IF r.i = r.retries
        THEN [called EXCEPT !.lastError = out.error, !.raised = out.error,
                            !.status = "thrown", !.pc = "done"]
        ELSE [called EXCEPT !.lastError = out.error,
                            !.delayMs = RetryDelay(r, out.error, jitter),
                            !.pc = "sleep"]

\* The timer of line 93 fires: the loop goes to its next iteration.
RetryOnWake(r) == [r EXCEPT !.i = @ + 1, !.pc = "call"]

\* The whole call, fn's attempts resolving as `plan` says (no jitter).
RECURSIVE RetryRun(_, _)
RetryRun(r, plan) ==
    IF r.pc = "done" \/ plan = <<>> THEN r
    ELSE LET a == RetryOnAttempt(r, Head(plan), 0)
         IN  IF a.pc = "sleep" THEN RetryRun(RetryOnWake(a), Tail(plan)) ELSE a


(***************************************************************************)
(* Remote world: what the ledger node and the metadata service hold.       *)
(* Mint accounts are named by short identifiers; AddrStr gives the base58  *)
(* address of each.                                                        *)
(***************************************************************************)
RECURSIVE Repeat(_, _)
Repeat(s, n) == IF n = 0 THEN <<>> ELSE s \o Repeat(s, n - 1)

NaN == 0 - 1                  \* undefined / NaN of a byte index (bytes are 0..255)
NoDate == 0 - 1               \* mintDate = undefined
NoBlockTime == 0              \* blockTime null (or 0): falsy in lines 188 and 369

STR_BONK == <<66, 79, 78, 75>>                                  \* "BONK"
STR_Bonk == <<66, 111, 110, 107>>                               \* "Bonk"
STR_BONK_ADDR ==                                                \* "DezXAZ8z7PnrnRJjz3wXBoRgixCa6xjnB7YaB1pPB263"
    <<68, 101, 122, 88, 65, 90, 56, 122, 55, 80, 110, 114, 110, 82, 74, 106, 122, 51, 119, 88, 66, 111,
      82, 103, 105, 120, 67, 97, 54, 120, 106, 110, 66, 55, 89, 97, 66, 49, 112, 80, 66, 50, 54, 51>>
STR_DOGE == <<68, 79, 71, 69>>                                  \* "DOGE"
STR_NO_ADDR ==                                                  \* "NoSuchMint1...1xyz", 44 characters
    <<78, 111, 83, 117, 99, 104, 77, 105, 110, 116>> \o Repeat(<<49>>, 31) \o <<120, 121, 122>>

MintIds == {"BONK", "BINU", "DOGE", "JUNK", "GONE", "DOGL", "MIMC", "MASK", "MSK2"}

AddrStr(m) ==
    CASE m = "BONK" -> STR_BONK_ADDR
      [] m = "BINU" -> Repeat(<<66, 105, 110, 117>>, 11)        \* "BinuBinu...": 44 characters
      [] m = "DOGE" -> Repeat(<<68, 111, 103, 101>>, 11)        \* "DogeDoge..."
      [] m = "JUNK" -> Repeat(<<74, 117, 110, 107>>, 11)        \* "JunkJunk..."
      [] m = "GONE" -> Repeat(<<71, 111, 110, 101>>, 11)        \* "GoneGone..."
      [] m = "DOGL" -> Repeat(<<100, 111, 103, 101>>, 11)       \* "dogedoge...": DOGE's, other case
      [] m = "MIMC" -> Repeat(<<77, 105, 109, 99>>, 11)         \* "MimcMimc..."
      [] m = "MASK" -> Repeat(<<77, 97, 115, 107>>, 11)         \* "MaskMask..."
      [] m = "MSK2" -> Repeat(<<77, 115, 107, 50>>, 11)         \* "Msk2Msk2..."

\* A metadata account's payload in the layout lines 195-204 read: a 4-byte header,
\* then [length][bytes] for the name, the symbol and the uri.
MetaBytes(name, symbol, uri) ==
    <<4, 0, 0, 0, Len(name)>> \o name \o <<Len(symbol)>> \o symbol \o <<Len(uri)>> \o uri

STR_URI == <<104, 116, 116, 112, 115, 58, 47, 47, 120>>         \* "https://x"

\* getParsedAccountInfo(mint).value: kind "mint" is data.parsed.type = 'mint', with
\* data.parsed.info's name, symbol and supply ("" when the field is missing);
\* kind "other" is an account that is no mint, kind "absent" is value = null.
ChainAccount(m) ==
    CASE m = "BONK" -> [kind |-> "mint", name |-> <<>>, symbol |-> <<>>, supply |-> "93"]
      [] m = "BINU" -> [kind |-> "mint", name |-> <<66, 111, 110, 107, 32, 73, 110, 117>>,  \* "Bonk Inu"
                        symbol |-> <<66, 79, 78, 75, 73, 78, 85>>, supply |-> ""]           \* "BONKINU"
      [] m = "DOGE" -> [kind |-> "mint", name |-> <<68, 111, 103, 101, 99, 111, 105, 110>>, \* "Dogecoin"
                        symbol |-> STR_DOGE, supply |-> "7"]
      [] m = "JUNK" -> [kind |-> "mint", name |-> <<74, 117, 110, 107, 32, 84, 111, 107, 101, 110>>, \* "Junk Token"
                        symbol |-> <<63>>, supply |-> "1"]                                  \* "?"
      [] m = "GONE" -> [kind |-> "absent", name |-> <<>>, symbol |-> <<>>, supply |-> ""]
      [] m = "DOGL" -> [kind |-> "mint", name |-> <<68, 111, 103, 101, 32, 76, 111, 119, 101, 114>>, \* "Doge Lower"
                        symbol |-> <<68, 79, 71, 76>>, supply |-> "5"]                      \* "DOGL"
      [] m = "MIMC" -> [kind |-> "mint", name |-> Repeat(<<68, 111, 103, 101>>, 11),        \* DOGE's address
                        symbol |-> <<68, 79, 71, 69, 50>>, supply |-> "2"]                  \* "DOGE2"
      [] m = "MASK" -> [kind |-> "mint", name |-> <<77, 97, 115, 107, 32, 84, 111, 107, 101, 110>>, \* "Mask Token"
                        symbol |-> <<77, 65, 83, 75>>, supply |-> "4"]                      \* "MASK"
      [] m = "MSK2" -> [kind |-> "mint", name |-> <<77, 97, 115, 107, 32, 84, 119, 111>>,   \* "Mask Two"
                        symbol |-> <<77, 65, 83, 75, 50>>, supply |-> "6"]                  \* "MASK2"
      [] m = "ACCT" -> [kind |-> "other", name |-> <<>>, symbol |-> <<>>, supply |-> ""]  \* a token account

\* getAccountInfo(findMetadataAddress(mint)): the account's data, or NoMeta for null.
NoMeta == <<"null">>
MetadataAccount(m) ==
    CASE m = "BONK" -> MetaBytes(STR_Bonk, STR_BONK, STR_URI)
      [] m = "DOGE" -> MetaBytes(<<68, 111, 103, 101, 33>>, STR_DOGE, <<>>)    \* "Doge!"
      [] m = "MASK" -> MetaBytes(<<63>>, <<77, 65, 83, 75>>, <<>>)             \* "?", "MASK"
      [] m = "MSK2" -> <<1, 2>>                        \* a payload cut short of the layout
      [] OTHER -> NoMeta

(***************************************************************************)
(* getTokenInfoFromMint (helius.ts, and line 258 of part_002)              *)
(***************************************************************************)
NowMs == 200000500            \* new Date().getTime(), on the model's time axis
SecPerHour == 1               \* the model's hour: 60 * 60 in the source, scaled
DayMs == 24 * SecPerHour * 1000

\* data[k] of a Buffer: undefined outside the buffer.
ByteAt(data, k) == IF k # NaN /\ k >= 0 /\ k < Len(data) THEN data[k + 1] ELSE NaN

Plus(a, b) == IF a = NaN \/ b = NaN THEN NaN ELSE a + b

\* Buffer.prototype.slice(a, b): NaN counts as 0, both ends are clamped.
Slice(data, a, b) ==
    LET from == IF a = NaN THEN 0 ELSE Min(a, Len(data))
        to == IF b = NaN THEN 0 ELSE Min(b, Len(data))
    IN  IF from >= to THEN <<>> ELSE SubSeq(data, from + 1, to)

NoMetadata == [present |-> FALSE, name |-> <<>>, symbol |-> <<>>, uri |-> <<>>]

\* Lines 193-214: the metadata record decoded from the account's data.
DecodeMetadata(data) ==
    IF data = NoMeta THEN NoMetadata
    ELSE LET nameLength == ByteAt(data, 4)
             name == Slice(data, 5, Plus(5, nameLength))
             symbolStart == Plus(5, nameLength)
             symbolLength == ByteAt(data, symbolStart)
             symbol == Slice(data, Plus(symbolStart, 1), Plus(Plus(symbolStart, 1), symbolLength))
             uriStart == Plus(Plus(symbolStart, 1), symbolLength)
             uriLength == ByteAt(data, uriStart)
             uri == Slice(data, Plus(uriStart, 1), Plus(Plus(uriStart, 1), uriLength))
         IN  [present |-> TRUE, name |-> sanitizeTokenText(name),
              symbol |-> sanitizeTokenText(symbol), uri |-> uri]

NoToken == [address |-> "none"]

\* Line 221 (helius.ts) and line 258 (part_002): the record is dropped.
RejectsNames(variant, tokenName, tokenSymbol) ==
    IF variant = "staged"
    THEN tokenName = STR_UNKNOWN \/ tokenSymbol = STR_UNKNOWN
    ELSE tokenName = STR_UNKNOWN /\ tokenSymbol = STR_UNKNOWN

\* Line 217: metadata?.name || sanitizeTokenText(tokenData.name || '')
TokenName(account, metadata) ==
    IF metadata.present /\ metadata.name # <<>>
    THEN metadata.name ELSE sanitizeTokenText(account.name)

\* Line 218: metadata?.symbol || sanitizeTokenText(tokenData.symbol || '')
TokenSymbol(account, metadata) ==
    IF metadata.present /\ metadata.symbol # <<>>
    THEN metadata.symbol ELSE sanitizeTokenText(account.symbol)

\* getTokenInfoFromMint once its two fetches have settled: mintFetch and metaFetch
\* are the final states of the two retryWithBackoff calls of lines 171-178.
getTokenInfoFromMint(variant, m, blockTime, mintFetch, metaFetch) ==
    LET account == ChainAccount(m)
        metadataInfo == IF metaFetch.status = "returned" THEN MetadataAccount(m) ELSE NoMeta
        mintDate == IF blockTime # NoBlockTime THEN blockTime * 1000 ELSE NoDate
        isNewToken == IF mintDate # NoDate THEN NowMs - mintDate <= DayMs ELSE FALSE
        metadata == DecodeMetadata(metadataInfo)
        tokenName == TokenName(account, metadata)
        tokenSymbol == TokenSymbol(account, metadata)
    IN  IF mintFetch.status # "returned" THEN NoToken
        ELSE IF account.kind # "mint" THEN NoToken
        ELSE IF RejectsNames(variant, tokenName, tokenSymbol) THEN NoToken
        ELSE [address |-> m, name |-> tokenName, symbol |-> tokenSymbol, source |-> "on-chain",
              mintDate |-> mintDate, isNewToken |-> isNewToken,
              supply |-> IF account.supply = "" THEN "0" ELSE account.supply,
              metadata |-> metadata]

\* No call of getTokenDetails under way.  lookup and account record, for the
\* properties, how the mint-date lookup and the account fetch ended.
DetailsIdle ==
    [pc |-> "idle", address |-> "GONE", first |-> "none", mintDate |-> NoDate,
     lookup |-> "none", account |-> "none", outcome |-> "none", returned |-> NoToken]


(***************************************************************************)
(* Remote world, continued: the registry, the queries, the symbol lookup   *)
(* service and the ledger's recent transactions.                           *)
(***************************************************************************)
\* KNOWN_TOKENS (lines 30-36): Object.entries gives [key, tokenData].
KNOWN_TOKENS ==
    <<[key |-> STR_BONK, address |-> "BONK", symbol |-> STR_BONK, name |-> STR_Bonk]>>

Queries == {"BONK", "DOGE", "NOADDR", "BONKADDR"}

QueryStr(q) ==
    CASE q = "BONK" -> STR_BONK
      [] q = "DOGE" -> STR_DOGE
      [] q = "NOADDR" -> STR_NO_ADDR          \* an address no account has
      [] q = "BONKADDR" -> STR_BONK_ADDR
      [] q = "DOGEADDR" -> AddrStr("DOGE")     \* the address of a mint the registry lacks
      [] q = "MASK" -> <<77, 65, 83, 75>>

\* Items the symbol lookup (getAssetsByGroup) may return: id, content.metadata.name,
\* content.metadata.symbol, token_info.supply ("" when missing), created_at.
Asset(id, name, symbol, supply, createdAt) ==
    [id |-> id, name |-> name, symbol |-> symbol, supply |-> supply, created_at |-> createdAt]

DasResponses(q) ==
    CASE q = "BONK" -> { <<>>,
                         <<Asset("BONK", STR_Bonk, STR_BONK, "93", 199000000)>>,
                         <<Asset("JUNK", STR_Bonk, <<>>, "", NoDate)>>,
                         <<Asset("BINU", <<>>, STR_BONK, "", NoDate),
                           Asset("BONK", STR_Bonk, STR_BONK, "93", 199000000)>> }
      [] q = "DOGE" -> { <<>>,
                         <<Asset("DOGE", <<68, 111, 103, 101, 33>>, STR_DOGE, "7", NoDate)>>,   \* "Doge!"
                         \* an asset filed under a spelling of the symbol ("D.O.G.E"), and
                         \* the DOGE asset with a creation date inside the last day
                         <<Asset("JUNK", <<74, 117, 110, 107, 32, 84, 111, 107, 101, 110>>,
                                 <<68, 46, 79, 46, 71, 46, 69>>, "1", NoDate),
                           Asset("DOGE", <<68, 111, 103, 101, 33>>, STR_DOGE, "7", 199990000)>> }
      [] OTHER -> { <<>> }

\* The ledger's recent transactions on the token program, newest first.
AllSigs == <<"s1", "s2", "s3", "s4", "s5", "s6">>

NoTx == [found |-> FALSE, mints |-> <<>>, blockTime |-> NoBlockTime]
Tx(mints, blockTime) == [found |-> TRUE, mints |-> mints, blockTime |-> blockTime]

\* getParsedTransaction(sig): meta.postTokenBalances' mints and blockTime (seconds),
\* or NoTx for null.
TxOf(sig) ==
    CASE sig = "s1" -> Tx(<<"BONK">>, 199976)            \* older than the 24h window
      [] sig = "s2" -> Tx(<<"BINU", "DOGE">>, 199990)    \* inside the window
      [] sig = "s3" -> NoTx
      [] sig = "s4" -> Tx(<<"DOGE">>, NoBlockTime)       \* block time unknown
      [] sig = "s5" -> Tx(<<"JUNK", "GONE">>, 199977)
      [] sig = "s6" -> Tx(<<>>, 199990)
      [] sig = "s7" -> Tx(<<"DOGL", "MIMC", "DOGE">>, 199995)
      [] sig = "s8" -> Tx(<<"MASK", "MSK2">>, 199990)

MaxListing == 5           \* longest signature list getSignaturesForAddress returns

Listings == {SubSeq(AllSigs, 1, n) : n \in 0..Min(MaxListing, Len(AllSigs))}

(***************************************************************************)
(* transactionCache (a Map: insertion ordered)                             *)
(***************************************************************************)
CacheCap == 3             \* 1000 in the source (line 450), scaled

CacheIndex(c, sig) ==
    IF \E i \in 1..Len(c) : c[i].sig = sig
    THEN CHOOSE i \in 1..Len(c) : c[i].sig = sig
    ELSE 0

\* A set that deletes a present key first, so that the key moves to the end (the
\* usual way to refresh an entry of an LRU cache).
MapSet_MoveToEnd(c, entry) ==
    Append(SelectSeq(c, LAMBDA e : e.sig # entry.sig), entry)

\* Map.prototype.set: a present key keeps its place, a new key goes last.  The stamp
\* of an entry records when its key was inserted (it is not data of the program).
MapSet(c, entry) ==
    LET i == CacheIndex(c, entry.sig)
    IN  IF i = 0 THEN Append(c, entry)
        ELSE [c EXCEPT ![i] = [entry EXCEPT !.stamp = c[i].stamp]]

\* Lines 450-455: above the capacity, the first key is deleted (unless it is "").
EvictOldest(c) ==
    IF Len(c) > CacheCap
    THEN LET firstKey == c[1].sig IN IF firstKey # "" THEN Tail(c) ELSE c
    ELSE c

\* The size check made before the insertion instead of after it.
CachePut_CheckFirst(c, entry) ==
    LET room == IF Len(c) > CacheCap THEN Tail(c) ELSE c
    IN  MapSet(room, entry)

\* Lines 448-455, run without suspension.
CachePut(c, entry) == EvictOldest(MapSet(c, entry))

(***************************************************************************)
(* The merge map `results` (a Map keyed by address) and the final sort     *)
(***************************************************************************)
ResultsIndex(results, a) ==
    IF \E i \in 1..Len(results) : results[i].address = a
    THEN CHOOSE i \in 1..Len(results) : results[i].address = a
    ELSE 0

ResultsHas(results, a) == ResultsIndex(results, a) # 0

\* A list that takes every record it is given.
ResultsSet_Append(results, token) == Append(results, token)

ResultsSet(results, token) ==
    LET i == ResultsIndex(results, token.address)
    IN  IF i = 0 THEN Append(results, token) ELSE [results EXCEPT ![i] = token]

\* searchQuery: query.toLowerCase().trim() (line 373); part_002 does not trim (line 297).
SearchQuery(variant, q) ==
    IF variant = "staged" THEN Trim(ToLower(QueryStr(q))) ELSE ToLower(QueryStr(q))

\* The mintDate part shared by both comparators (lines 509-513).
CompareDates(a, b) ==
    IF a.mintDate = NoDate /\ b.mintDate = NoDate THEN 0
    ELSE IF a.mintDate = NoDate THEN 1
    ELSE IF b.mintDate = NoDate THEN 0 - 1
    ELSE b.mintDate - a.mintDate

CompareKnown(a, b) ==
    IF a.source = "known" /\ b.source # "known" THEN 0 - 1
    ELSE IF a.source # "known" /\ b.source = "known" THEN 1
    ELSE CompareDates(a, b)

\* The comparator of the final sort: lines 498-514 (helius.ts), 421-431 (part_002).
CompareFinal(variant, searchQuery, a, b) ==
    LET aExactMatch == ToLower(a.symbol) = searchQuery \/ ToLower(a.name) = searchQuery
        bExactMatch == ToLower(b.symbol) = searchQuery \/ ToLower(b.name) = searchQuery
    IN  IF variant = "staged" /\ aExactMatch /\ ~bExactMatch THEN 0 - 1
        ELSE IF variant = "staged" /\ ~aExactMatch /\ bExactMatch THEN 1
        ELSE CompareKnown(a, b)

\* The comparator of the early return: lines 385-392.
CompareSymbol(searchQuery, a, b) ==
    LET aExactMatch == ToLower(a.symbol) = searchQuery
        bExactMatch == ToLower(b.symbol) = searchQuery
    IN  IF aExactMatch /\ ~bExactMatch THEN 0 - 1
        ELSE IF ~aExactMatch /\ bExactMatch THEN 1
        ELSE 0

Compare(mode, variant, searchQuery, a, b) ==
    IF mode = "symbol" THEN CompareSymbol(searchQuery, a, b)
    ELSE CompareFinal(variant, searchQuery, a, b)

\* Array.prototype.sort is stable: x goes behind every element not after it.
RECURSIVE InsertSorted(_, _, _, _, _)
InsertSorted(sorted, x, mode, variant, searchQuery) ==
    IF sorted = <<>> THEN <<x>>
    ELSE LET last == sorted[Len(sorted)]
         IN  IF Compare(mode, variant, searchQuery, x, last) < 0
             THEN Append(InsertSorted(SubSeq(sorted, 1, Len(sorted) - 1), x, mode, variant, searchQuery), last)
             ELSE Append(sorted, x)

RECURSIVE SortTokens(_, _, _, _)
SortTokens(tokens, mode, variant, searchQuery) ==
    IF tokens = <<>> THEN <<>>
    ELSE InsertSorted(SortTokens(SubSeq(tokens, 1, Len(tokens) - 1), mode, variant, searchQuery),
                      tokens[Len(tokens)], mode, variant, searchQuery)


(***************************************************************************)
(* searchTokens: helius.ts (variant "staged") and part_002 (variant        *)
(* "range", which takes a time range and has no symbol lookup).            *)
(***************************************************************************)
BatchSize == 2            \* 10 in the source (line 420), scaled
BatchGroup == 2           \* batches awaited together: 3 in the source (line 483), scaled
ScanCap == 2              \* results.size < 50 (line 423; 100 in part_002), scaled
ResultCap == 2            \* slice(0, 50) (line 515; 100 in part_002), scaled
TickerLength == 10        \* query.length <= 10 (line 376)
DasLimit == 2             \* limit of the symbol lookup's request: 10 in the source (line 333), scaled
MaxSafeInteger == 2147483647   \* Number.MAX_SAFE_INTEGER, as the model's largest integer

TimeRanges == {"24h", "7d", "30d", "all"}

\* The week computed without its 24 hours a day.
getTimeRangeInMs_ShortWeek(range) ==
    CASE range = "24h" -> DayMs
      [] range = "7d" -> 7 * SecPerHour * 1000
      [] range = "30d" -> 30 * DayMs
      [] range = "all" -> MaxSafeInteger

getTimeRangeInMs(range) ==
    CASE range = "24h" -> DayMs
      [] range = "7d" -> 7 * DayMs
      [] range = "30d" -> 30 * DayMs
      [] range = "all" -> MaxSafeInteger

\* What each attempt of a remote call may do, and the attempts of one call.
\* fails times a failure, then successes: the attempts behind a success are never made.
PlanOf(fails, retries) ==
    [i \in 1..(retries + 1) |-> IF i <= fails THEN Fail(ERR_TIMEOUT) ELSE Ok("v1")]

\* Success at once, success on the last attempt, failure of every attempt.
Plans(retries) == {PlanOf(0, retries), PlanOf(retries, retries), PlanOf(retries + 1, retries)}

\* retryWithBackoff(fn, retries) with the default delays, attempts as in plan.
Remote(retries, plan) == RetryRun(RetryStart(retries, 1000, 10000), plan)

\* The task of one signature.  handed, found, absent and dropped record, for the
\* properties, the mints the task handed to the resolver, the mints it accepted, the
\* mints the resolver gave up on although both of its fetches succeeded, and those it
\* gave up on when only the metadata fetch failed.
IdleTask ==
    [pc |-> "idle", sig |-> "", fetch |-> "none", blockTime |-> NoBlockTime,
     pending |-> <<>>, handed |-> <<>>, found |-> {}, absent |-> {}, dropped |-> {}]

IdleSearch ==
    [pc |-> "idle", variant |-> "staged", query |-> "BONK", timeRange |-> "24h",
     results |-> <<>>, outcome |-> "none", returned |-> <<>>, knownPending |-> <<>>,
     sigs |-> <<>>, tasks |-> <<>>, next |-> 0, batches |-> 0,
     anyOk |-> FALSE, anyFail |-> FALSE, anyMatch |-> FALSE]

\* Ghost fields: whether some remote call succeeded, some remote call failed after
\* its retries, some candidate was accepted for the query.
Noted(sr, calls) ==
    [sr EXCEPT !.anyOk = @ \/ (\E i \in 1..Len(calls) : calls[i].status = "returned"),
               !.anyFail = @ \/ (\E i \in 1..Len(calls) : calls[i].status = "thrown")]

\* The list returned whole.
Take_All(s, n) == s

\* slice(0, n)
Take(s, n) == SubSeq(s, 1, Min(n, Len(s)))

\* An error raised and not caught inside the call: console.error, then no rethrow.
Raise_Swallow(sr) == [sr EXCEPT !.pc = "done", !.outcome = "returned", !.returned = <<>>]

\* Lines 517-520: the error is logged and thrown again.
Raise(sr) == [sr EXCEPT !.pc = "done", !.outcome = "raised"]

\* An empty result reported as an error ("no tokens found") instead of a list.
Finalize_RaiseOnEmpty(sr) ==
    IF sr.results = <<>> THEN Raise(sr)
    ELSE [sr EXCEPT !.pc = "done", !.outcome = "returned",
                    !.returned = Take(SortTokens(sr.results, "final", sr.variant,
                                                 SearchQuery(sr.variant, sr.query)), ResultCap)]

\* Lines 495-515: sort, slice, return.
Finalize(sr) ==
    [sr EXCEPT !.pc = "done", !.outcome = "returned",
               !.returned = Take(SortTokens(sr.results, "final", sr.variant,
                                            SearchQuery(sr.variant, sr.query)), ResultCap)]

\* A task whose fetch failed takes the whole search down (no try/catch in the task).
FetchFailed_Abort(sr, k) ==
    Raise([sr EXCEPT !.tasks[k] = [@ EXCEPT !.pc = "done", !.fetch = "failed"]])

\* Lines 476-478: the catch of the task swallows the error; the task is over.
FetchFailed(sr, k) ==
    [sr EXCEPT !.tasks[k] = [@ EXCEPT !.pc = "done", !.fetch = "failed"]]

\* Lines 459-474 (366-396 of part_002), up to the await of line 474: the mints of
\* the transaction that the map does not hold yet are handed to the resolver.
\* A transaction without block time counted as older than every range.
OutOfRange_UndatedIsOld(sr, tx) ==
    /\ sr.variant = "range"
    /\ sr.timeRange # "all"
    /\ (tx.blockTime = NoBlockTime \/ NowMs - tx.blockTime * 1000 > getTimeRangeInMs(sr.timeRange))

OutOfRange(sr, tx) ==
    /\ sr.variant = "range"
    /\ tx.blockTime # NoBlockTime
    /\ sr.timeRange # "all"
    /\ NowMs - tx.blockTime * 1000 > getTimeRangeInMs(sr.timeRange)

\* The mints handed to the resolver without the look at the map.
NotYetInResults_NoFilter(sr, mints) == mints

\* Line 463 (line 380 of part_002): !results.has(mintAddress).
NotYetInResults(sr, mints) ==
    SelectSeq(mints, LAMBDA m : ~ResultsHas(sr.results, m))

ProcessTx(sr, task, tx) ==
    IF tx.mints = <<>> \/ OutOfRange(sr, tx) \/ NotYetInResults(sr, tx.mints) = <<>>
    THEN [task EXCEPT !.pc = "done", !.blockTime = tx.blockTime]
    ELSE [task EXCEPT !.pc = "resolve", !.blockTime = tx.blockTime,
                      !.pending = NotYetInResults(sr, tx.mints),
                      !.handed = NotYetInResults(sr, tx.mints)]

\* The task with the block time of a cached transaction left out.
StartTask_HitUndated(sr, c, sig) ==
    LET i == CacheIndex(c, sig)
    IN  IF i # 0
        THEN ProcessTx(sr, [IdleTask EXCEPT !.sig = sig, !.fetch = "hit"],
                       [c[i] EXCEPT !.blockTime = NoBlockTime])
        ELSE [IdleTask EXCEPT !.sig = sig, !.pc = "fetch"]

\* Lines 429-437: the task of one signature, up to its first await.
StartTask(sr, c, sig) ==
    LET i == CacheIndex(c, sig)
    IN  IF i # 0
        THEN ProcessTx(sr, [IdleTask EXCEPT !.sig = sig, !.fetch = "hit"], c[i])
        ELSE [IdleTask EXCEPT !.sig = sig, !.pc = "fetch"]

\* The loop with its index never advanced (i += batchSize left out).
RECURSIVE RunLoop_NoAdvance(_, _)
RunLoop_NoAdvance(sr, c) ==
    IF sr.next < Len(sr.sigs) /\ Len(sr.results) < ScanCap
    THEN LET batch == (sr.next + 1)..Min(sr.next + BatchSize, Len(sr.sigs))
             started == [sr EXCEPT
                           !.tasks = [k \in DOMAIN sr.tasks |->
                                        IF k \in batch THEN StartTask(sr, c, sr.sigs[k])
                                        ELSE sr.tasks[k]],
                           !.next = @,
                           !.batches = @ + 1]
         IN  IF started.batches = BatchGroup
             THEN [started EXCEPT !.pc = "awaitGroup"]
             ELSE RunLoop_NoAdvance(started, c)
    ELSE IF sr.batches > 0 THEN [sr EXCEPT !.pc = "awaitTail"]
    ELSE Finalize(sr)

\* The for loop of lines 423-492 from its current index to its next await.
RECURSIVE RunLoop(_, _)
RunLoop(sr, c) ==
    IF sr.next < Len(sr.sigs) /\ Len(sr.results) < ScanCap
    THEN LET batch == (sr.next + 1)..Min(sr.next + BatchSize, Len(sr.sigs))
             started == [sr EXCEPT
                           !.tasks = [k \in DOMAIN sr.tasks |->
                                        IF k \in batch THEN StartTask(sr, c, sr.sigs[k])
                                        ELSE sr.tasks[k]],
                           !.next = @ + BatchSize,
                           !.batches = @ + 1]
         IN  IF started.batches = BatchGroup
             THEN [started EXCEPT !.pc = "awaitGroup"]
             ELSE RunLoop(started, c)
    ELSE IF sr.batches > 0 THEN [sr EXCEPT !.pc = "awaitTail"]
    ELSE Finalize(sr)

\* The scan run whatever the registry pass left in the map.
AfterKnown_AlwaysScan(sr) == [sr EXCEPT !.pc = "listing"]

\* After the known-registry pass (line 407): helius.ts scans only an empty map.
AfterKnown(sr) ==
    IF sr.variant = "staged" /\ sr.results # <<>> THEN Finalize(sr)
    ELSE [sr EXCEPT !.pc = "listing"]

\* Lines 397-405: the registry entries that match the query are resolved.
KnownMatches(sr) ==
    SelectSeq([i \in 1..Len(KNOWN_TOKENS) |-> i],
              LAMBDA i : Matches(sr.variant, SearchQuery(sr.variant, sr.query),
                                 KNOWN_TOKENS[i].name, KNOWN_TOKENS[i].key,
                                 AddrStr(KNOWN_TOKENS[i].address)))

KnownSpawn(sr) ==
    LET matching == KnownMatches(sr)
    IN  IF matching = <<>> THEN AfterKnown(sr)
        ELSE [sr EXCEPT !.pc = "known", !.knownPending = matching, !.anyMatch = TRUE]

\* The call of searchTokens up to its first await.
StartSearch(variant, q, range) ==
    LET sr == [IdleSearch EXCEPT !.variant = variant, !.query = q, !.timeRange = range]
    IN  IF variant = "staged" /\ Len(QueryStr(q)) <= TickerLength
        THEN [sr EXCEPT !.pc = "das"]
        ELSE KnownSpawn(sr)

\* Lines 350-362: the records made of the lookup's items.
DasTokens(items) ==
    LET kept == SelectSeq(items, LAMBDA a : a.symbol # <<>>)
    IN  [i \in 1..Len(kept) |->
            [address |-> kept[i].id,
             name |-> IF kept[i].name # <<>> THEN kept[i].name ELSE STR_UNKNOWN,
             symbol |-> kept[i].symbol,
             source |-> "helius-das", mintDate |-> kept[i].created_at, isNewToken |-> FALSE,
             supply |-> IF kept[i].supply = "" THEN "0" ELSE kept[i].supply,
             metadata |-> NoMetadata]]

RECURSIVE SetAll(_, _)
SetAll(results, tokens) ==
    IF tokens = <<>> THEN results ELSE SetAll(ResultsSet(results, Head(tokens)), Tail(tokens))


(***************************************************************************)
(* Actions of a searchTokens call s: each is the code run when one await   *)
(* of the call completes, up to the next await.  A task of the scan runs   *)
(* on whatever the call itself is doing.                                   *)
(***************************************************************************)
Searches == {1, 2}

\* Line 377: searchTokensBySymbol settles (it swallows its errors, lines 364-367).
DasDone(s, plan, items) ==
    /\ srch[s].pc = "das"
    /\ Len(items) <= DasLimit
    /\ \E call \in {Remote(3, plan)} :
       \E dasResults \in {IF call.status = "returned" THEN DasTokens(items) ELSE <<>>} :
       \E merged \in {[Noted(srch[s], <<call>>) EXCEPT
                         !.results = SetAll(@, dasResults),
                         !.anyMatch = dasResults # <<>>]} :
          srch' = [srch EXCEPT ![s] =
                IF merged.results # <<>>
                THEN [merged EXCEPT !.pc = "done", !.outcome = "returned",
                                    !.returned = SortTokens(merged.results, "symbol", merged.variant,
                                                            SearchQuery(merged.variant, merged.query))]
                ELSE KnownSpawn(merged)]
    /\ UNCHANGED <<rt, cache, clock, probe, fast, res, det>>

\* Lines 399-407: getTokenInfoFromMint settles for one matching registry entry.
KnownDone(s, j, mintPlan, metaPlan) ==
    /\ srch[s].pc = "known"
    /\ j \in 1..Len(srch[s].knownPending)
    /\ \E mintCall \in {Remote(2, mintPlan)}, metaCall \in {Remote(1, metaPlan)} :
       \E sr \in {Noted(srch[s], <<mintCall, metaCall>>)} :
       \E tokenInfo \in {getTokenInfoFromMint(sr.variant, KNOWN_TOKENS[sr.knownPending[j]].address,
                                              NoBlockTime, mintCall, metaCall)} :
          LET rest == [i \in 1..(Len(sr.knownPending) - 1) |->
                          IF i < j THEN sr.knownPending[i] ELSE sr.knownPending[i + 1]]
              merged == [sr EXCEPT
                            !.results = IF tokenInfo # NoToken
                                        THEN ResultsSet(@, [tokenInfo EXCEPT !.source = "known"])
                                        ELSE @,
                            !.knownPending = rest]
          IN  srch' = [srch EXCEPT ![s] = IF rest = <<>> THEN AfterKnown(merged) ELSE merged]
    /\ UNCHANGED <<rt, cache, clock, probe, fast, res, det>>

\* Lines 411-417: getSignaturesForAddress settles; the batch loop starts at once.
ListingDone(s, plan, listing) ==
    /\ srch[s].pc = "listing"
    /\ LET call == Remote(2, plan)
           sr == Noted(srch[s], <<call>>)
       IN  srch' = [srch EXCEPT ![s] =
                IF call.status = "thrown" THEN Raise(sr)
                ELSE RunLoop([sr EXCEPT !.sigs = listing,
                                        !.tasks = [k \in 1..Len(listing) |-> IdleTask]],
                             cache)]
    /\ UNCHANGED <<rt, cache, clock, probe, fast, res, det>>

\* Lines 431-457: getParsedTransaction settles for the task of signature k.
FetchDone(s, k, plan) ==
    /\ srch[s].pc \in {"awaitGroup", "awaitTail", "delay", "done"}
    /\ k \in 1..Len(srch[s].tasks)
    /\ srch[s].tasks[k].pc = "fetch"
    /\ LET call == Remote(2, plan)
           sr == Noted(srch[s], <<call>>)
           task == sr.tasks[k]
           parsedTx == TxOf(task.sig)
           entry == [sig |-> task.sig, mints |-> parsedTx.mints,
                     blockTime |-> parsedTx.blockTime, stamp |-> clock + 1]
       IN  IF call.status = "thrown"
           THEN /\ srch' = [srch EXCEPT ![s] = FetchFailed(sr, k)]
                /\ UNCHANGED <<cache, clock>>
           ELSE IF ~parsedTx.found
           THEN /\ srch' = [srch EXCEPT ![s] =
                       [sr EXCEPT !.tasks[k] = [task EXCEPT !.pc = "done", !.fetch = "null"]]]
                /\ UNCHANGED <<cache, clock>>
           ELSE /\ cache' = CachePut(cache, entry)
                /\ clock' = clock + 1
                /\ srch' = [srch EXCEPT ![s] =
                       [sr EXCEPT !.tasks[k] = ProcessTx(sr, [task EXCEPT !.fetch = "ok"], entry)]]
    /\ UNCHANGED <<rt, probe, fast, res, det>>

\* Lines 467-472 (385-394 of part_002): the record kept for an accepted mint.
Accepted(sr, tokenInfo) ==
    /\ tokenInfo # NoToken
    /\ Matches(sr.variant, SearchQuery(sr.variant, sr.query), tokenInfo.name, tokenInfo.symbol,
               AddrStr(tokenInfo.address))

Stored(sr, tokenInfo) ==
    IF sr.variant = "range" /\ tokenInfo.mintDate # NoDate
    THEN [tokenInfo EXCEPT !.isNewToken = NowMs - tokenInfo.mintDate <= getTimeRangeInMs(sr.timeRange)]
    ELSE tokenInfo

\* Lines 467-474: getTokenInfoFromMint settles for the j-th mint of task k.
ResolveDone(s, k, j, mintPlan, metaPlan) ==
    /\ srch[s].pc \in {"awaitGroup", "awaitTail", "delay", "done"}
    /\ k \in 1..Len(srch[s].tasks)
    /\ srch[s].tasks[k].pc = "resolve"
    /\ j \in 1..Len(srch[s].tasks[k].pending)
    /\ \E mintCall \in {Remote(2, mintPlan)}, metaCall \in {Remote(1, metaPlan)} :
       \E sr \in {Noted(srch[s], <<mintCall, metaCall>>)} :
       \E tokenInfo \in {getTokenInfoFromMint(sr.variant, sr.tasks[k].pending[j],
                                              sr.tasks[k].blockTime, mintCall, metaCall)} :
       \E accepted \in {Accepted(sr, tokenInfo)} :
          LET task == sr.tasks[k]
              mintAddress == task.pending[j]
              rest == [i \in 1..(Len(task.pending) - 1) |->
                          IF i < j THEN task.pending[i] ELSE task.pending[i + 1]]
          IN  srch' = [srch EXCEPT ![s] =
                [sr EXCEPT !.results = IF accepted THEN ResultsSet(@, Stored(sr, tokenInfo)) ELSE @,
                           !.anyMatch = @ \/ accepted,
                           !.tasks[k] = [task EXCEPT
                                            !.pending = rest,
                                            !.found = IF accepted THEN @ \cup {mintAddress} ELSE @,
                                            !.absent = IF /\ tokenInfo = NoToken
                                                          /\ mintCall.status = "returned"
                                                          /\ metaCall.status = "returned"
                                                       THEN @ \cup {mintAddress} ELSE @,
                                            !.dropped = IF /\ tokenInfo = NoToken
                                                           /\ mintCall.status = "returned"
                                                           /\ metaCall.status # "returned"
                                                        THEN @ \cup {mintAddress} ELSE @,
                                            !.pc = IF rest = <<>> THEN "done" ELSE "resolve"]]]
    /\ UNCHANGED <<rt, cache, clock, probe, fast, res, det>>

\* Only the batch pushed last is awaited.
AllStartedDone_LastBatch(sr) ==
    \A k \in (sr.next - BatchSize + 1)..Min(sr.next, Len(sr.sigs)) : sr.tasks[k].pc = "done"

AllStartedDone(sr) ==
    \A k \in 1..Min(sr.next, Len(sr.sigs)) : sr.tasks[k].pc = "done"

\* Lines 484-486: the awaited batches have all settled; the delay is started.
GroupDone(s) ==
    /\ srch[s].pc = "awaitGroup"
    /\ AllStartedDone(srch[s])
    /\ srch' = [srch EXCEPT ![s] = [@ EXCEPT !.batches = 0, !.pc = "delay"]]
    /\ UNCHANGED <<rt, cache, clock, probe, fast, res, det>>

\* Line 486: the delay is over; the loop goes on.
DelayDone(s) ==
    /\ srch[s].pc = "delay"
    /\ srch' = [srch EXCEPT ![s] = RunLoop(@, cache)]
    /\ UNCHANGED <<rt, cache, clock, probe, fast, res, det>>

\* The list returned without the await of the remaining batches.
TailDone_NoWait(s) ==
    /\ srch[s].pc = "awaitTail"
    /\ srch' = [srch EXCEPT ![s] = Finalize(@)]
    /\ UNCHANGED <<rt, cache, clock, probe, fast, res, det>>

\* Lines 490-492: the remaining batches have settled.
TailDone(s) ==
    /\ srch[s].pc = "awaitTail"
    /\ AllStartedDone(srch[s])
    /\ srch' = [srch EXCEPT ![s] = Finalize(@)]
    /\ UNCHANGED <<rt, cache, clock, probe, fast, res, det>>

\* The cache as an earlier search of the process may have left it.
EntryOf(sig, stamp) ==
    [sig |-> sig, mints |-> TxOf(sig).mints, blockTime |-> TxOf(sig).blockTime, stamp |-> stamp]

InitialCaches == { <<>>, <<EntryOf("s2", 1)>> }

(***************************************************************************)
(* Spec: one call of helius.ts's searchTokens.                             *)
(***************************************************************************)
Init ==
    /\ rt = RetryIdle
    /\ cache \in InitialCaches
    /\ clock = Len(cache)
    /\ probe = ProbeIdle
    /\ res = ResIdle
    /\ det = DetailsIdle
    /\ fast = FastIdle
    /\ \E q \in Queries :
          srch = [s \in Searches |-> IF s = 1 THEN StartSearch("staged", q, "24h") ELSE IdleSearch]

Scan(s) ==
    \/ \E k \in DOMAIN srch[s].tasks, plan \in Plans(2) : FetchDone(s, k, plan)
    \/ \E k \in DOMAIN srch[s].tasks :
          \E j \in DOMAIN srch[s].tasks[k].pending, mintPlan \in Plans(2), metaPlan \in Plans(1) :
             ResolveDone(s, k, j, mintPlan, metaPlan)
    \/ GroupDone(s)
    \/ DelayDone(s)
    \/ TailDone(s)

Next ==
    \/ \E plan \in Plans(3), items \in DasResponses(srch[1].query) : DasDone(1, plan, items)
    \/ \E mintPlan \in Plans(2), metaPlan \in Plans(1) : KnownDone(1, 1, mintPlan, metaPlan)
    \/ \E plan \in Plans(2), listing \in Listings : ListingDone(1, plan, listing)
    \/ Scan(1)

Spec == Init /\ [][Next]_vars


(***************************************************************************)
(* SpecRetry: one call of retryWithBackoff, fn resolving or rejecting at   *)
(* each attempt as the environment chooses.                                *)
(***************************************************************************)
InitRetry ==
    /\ rt \in {RetryStart(n, b, m) : n \in 0..MaxRetries, b \in BaseDelays, m \in MaxDelays}
    /\ cache = <<>>
    /\ clock = 0
    /\ probe = ProbeIdle
    /\ res = ResIdle
    /\ det = DetailsIdle
    /\ fast = FastIdle
    /\ srch = [s \in Searches |-> IdleSearch]

\* Line 74: fn is called and settles.
RetryAttempt ==
    /\ rt.pc = "call"
    /\ \E out \in AttemptOutcomes, jitter \in Jitters : rt' = RetryOnAttempt(rt, out, jitter)
    /\ UNCHANGED <<cache, srch, clock, probe, fast, res, det>>

\* Line 93: the delay is over.
RetryWake ==
    /\ rt.pc = "sleep"
    /\ rt' = RetryOnWake(rt)
    /\ UNCHANGED <<cache, srch, clock, probe, fast, res, det>>

NextRetry == RetryAttempt \/ RetryWake

SpecRetry == InitRetry /\ [][NextRetry]_vars

AllFailed(log) == \A i \in 1..Len(log) : ~log[i].ok

\* C1: when fn fails on every attempt, retryWithBackoff calls fn exactly retries + 1
\* times and then raises the error of the last attempt: it does not stop earlier, it
\* raises neither an earlier error nor returns a value.
C1_AlwaysFailingRaisesLastError ==
    LET n == Len(rt.log)
    IN  /\ rt.status = "thrown" =>
              /\ n = rt.retries + 1
              /\ AllFailed(rt.log)
              /\ rt.raised = rt.log[n].error
        /\ (AllFailed(rt.log) /\ rt.pc = "done") => (rt.status = "thrown" /\ n = rt.retries + 1)
        /\ (AllFailed(rt.log) /\ n = rt.retries + 1) => rt.status = "thrown"

\* Three attempts failed, with different errors first and last, and the call raised.
C1_Witness ==
    /\ rt.status = "thrown"
    /\ Len(rt.log) >= 3
    /\ rt.log[1].error # rt.log[Len(rt.log)].error

\* C2: when fn fails k times and then succeeds (k <= retries), retryWithBackoff returns
\* that value after exactly k + 1 calls of fn, and fn is not called after it succeeded,
\* whatever the errors of the failed attempts were.
C2_SuccessAfterFailuresReturns ==
    LET n == Len(rt.log)
    IN  /\ \A i \in 1..n : rt.log[i].ok => i = n
        /\ (n > 0 /\ rt.log[n].ok) =>
              /\ rt.status = "returned"
              /\ rt.pc = "done"
              /\ rt.result = rt.log[n].value
              /\ n <= rt.retries + 1
        /\ rt.status = "returned" => (n > 0 /\ rt.log[n].ok)

\* fn failed twice (once rate limited), succeeded at the third call, k = 2 < retries.
C2_Witness ==
    /\ rt.status = "returned"
    /\ Len(rt.log) = 3
    /\ rt.retries > 2
    /\ rt.log[1].error = ERR_RATE
    /\ rt.log[2].error = ERR_OTHER
    /\ rt.result = "v2"


\* C25: the delay retryWithBackoff waits before the next attempt after a rate-limit
\* error never exceeds maxDelay, whatever the attempt index, the base delay and the
\* jitter.
C25_RateLimitDelayCapped ==
    (rt.pc = "sleep" /\ Includes(ToLower(rt.lastError), STR_RATE_LIMIT)) =>
       rt.delayMs <= rt.maxDelay

(***************************************************************************)
(* SpecCache: two calls of searchTokens run interleaved on the one         *)
(* transactionCache.  The query is an address no registry entry matches,   *)
(* so that both calls go to the ledger scan at once.                       *)
(***************************************************************************)
\* What getSignaturesForAddress answers to each of the two calls.
CacheListings(s) ==
    IF s = 1 THEN { <<"s1", "s4", "s6">> }
    ELSE { <<"s1", "s4", "s6">>, <<"s6", "s2">> }

InitCache ==
    /\ rt = RetryIdle
    /\ cache = <<>>
    /\ clock = 0
    /\ probe = ProbeIdle
    /\ res = ResIdle
    /\ det = DetailsIdle
    /\ fast = FastIdle
    /\ srch = [s \in Searches |-> StartSearch("staged", "NOADDR", "24h")]

NextCache ==
    \E s \in Searches :
        \/ \E listing \in CacheListings(s) : ListingDone(s, PlanOf(0, 2), listing)
        \/ \E k \in 1..3 : FetchDone(s, k, PlanOf(0, 2))
        \/ \E k \in 1..3, j \in 1..2 : ResolveDone(s, k, j, PlanOf(0, 2), PlanOf(0, 1))
        \/ GroupDone(s)
        \/ DelayDone(s)
        \/ TailDone(s)

SpecCache == InitCache /\ [][NextCache]_vars

Keys(c) == [i \in 1..Len(c) |-> c[i].sig]

\* C3: whenever control is yielded (in every state between two steps of the tasks),
\* the transaction cache holds at most CacheCap entries, whichever of the two
\* interleaved searches made the insertions.
C3_CacheBounded == Len(cache) <= CacheCap

\* The cache is full after more insertions than it can hold, made by both searches.
C3_Witness ==
    /\ Len(cache) = CacheCap
    /\ clock > CacheCap
    /\ \A s \in Searches : \E k \in 1..Len(srch[s].tasks) : srch[s].tasks[k].fetch = "ok"
    /\ \E k \in 1..Len(srch[1].tasks) :
          srch[1].tasks[k].fetch = "ok" /\ CacheIndex(cache, srch[1].tasks[k].sig) = 0

\* C4: eviction is first in, first out.  A step leaves the keys in place (a hit, or a
\* signature written again), or appends a new key, or appends a new key and removes
\* the first one, which is the entry inserted earliest: the stamps of insertion grow
\* along the cache.
C4_FifoEviction ==
    [][ /\ \/ Keys(cache') = Keys(cache)
           \/ \E sig \in {AllSigs[i] : i \in 1..Len(AllSigs)} :
                 /\ CacheIndex(cache, sig) = 0
                 /\ \/ Keys(cache') = Append(Keys(cache), sig) /\ Len(cache) < CacheCap
                    \/ Keys(cache') = Tail(Append(Keys(cache), sig)) /\ Len(cache) = CacheCap
        /\ \A i \in 1..(Len(cache') - 1) : cache'[i].stamp < cache'[i + 1].stamp
      ]_vars

\* The same signature was written by both searches, and an entry has been evicted
\* while that signature, older than the last insertion, stayed.
C4_Witness ==
    /\ \A s \in Searches : \E k \in 1..Len(srch[s].tasks) :
          srch[s].tasks[k].sig = "s6" /\ srch[s].tasks[k].fetch = "ok"
    /\ Len(cache) = CacheCap
    /\ CacheIndex(cache, "s6") \in 1..(CacheCap - 1)
    /\ \E k \in 1..Len(srch[1].tasks) :
          srch[1].tasks[k].fetch = "ok" /\ CacheIndex(cache, srch[1].tasks[k].sig) = 0


(***************************************************************************)
(* SpecMerge: one call of searchTokens, of helius.ts or of the time-range  *)
(* variant (part_002), which scans the ledger after the registry pass      *)
(* whatever that pass found.                                               *)
(***************************************************************************)
MergeQueries == {"BONK", "DOGE"}

InitMerge ==
    /\ rt = RetryIdle
    /\ cache \in InitialCaches
    /\ clock = Len(cache)
    /\ probe = ProbeIdle
    /\ res = ResIdle
    /\ det = DetailsIdle
    /\ fast = FastIdle
    /\ \E q \in MergeQueries, range \in {"24h", "7d"} :
          srch = [s \in Searches |->
                     IF s = 2 THEN IdleSearch
                     ELSE IF range = "24h" THEN StartSearch("staged", q, range)
                     ELSE StartSearch("range", q, range)]

SpecMerge == InitMerge /\ [][Next]_vars

Priority(source) ==
    CASE source = "known" -> 3
      [] source = "helius-das" -> 2
      [] source = "on-chain" -> 1

RecordOf(results, a) == results[ResultsIndex(results, a)]

\* C5: once the merge map holds a record for a mint address, a step never replaces it
\* by a record of a lower-priority source (known > helius-das > on-chain) nor removes
\* it, and every record the call returns is the one the merge map holds for its
\* address: a mint the registry pass produced stays "known" when the ledger scan
\* meets the same mint.
C5_MergeKeepsHigherPriority ==
    [][ /\ \A i \in 1..Len(srch[1].results) :
              LET old == srch[1].results[i]
              IN  /\ ResultsHas(srch'[1].results, old.address)
                  /\ Priority(RecordOf(srch'[1].results, old.address).source) >= Priority(old.source)
        /\ srch'[1].pc = "done" =>
              \A i \in 1..Len(srch'[1].returned) :
                 /\ ResultsHas(srch'[1].results, srch'[1].returned[i].address)
                 /\ srch'[1].returned[i] = RecordOf(srch'[1].results, srch'[1].returned[i].address)
      ]_vars

\* The time-range search returned the registry's record of BONK after its scan went
\* through a transaction inside the range that holds the BONK mint.
C5_Witness ==
    /\ srch[1].variant = "range"
    /\ srch[1].pc = "done"
    /\ \E k \in 1..Len(srch[1].tasks) :
          /\ srch[1].tasks[k].fetch \in {"ok", "hit"}
          /\ \E j \in 1..Len(TxOf(srch[1].tasks[k].sig).mints) :
                TxOf(srch[1].tasks[k].sig).mints[j] = "BONK"
          /\ ~OutOfRange(srch[1], TxOf(srch[1].tasks[k].sig))
    /\ \E i \in 1..Len(srch[1].returned) :
          srch[1].returned[i].address = "BONK" /\ srch[1].returned[i].source = "known"

HasKnownBonk(tokens) ==
    \E i \in 1..Len(tokens) : tokens[i].source = "known" /\ tokens[i].address = "BONK"

\* C6: a call searchTokens("BONK") of helius.ts in which no remote call failed (so
\* that the BONK mint resolves) returns a list holding a record of source "known"
\* with the registry's BONK address, whatever the symbol lookup returned.
C6_ScenarioA ==
    (srch[1].variant = "staged" /\ srch[1].query = "BONK" /\ srch[1].pc = "done"
        /\ ~srch[1].anyFail)
    => (srch[1].outcome = "returned" /\ HasKnownBonk(srch[1].returned))

\* C7: a call in which every remote call succeeded and no candidate matched the
\* query returns the empty list and does not raise.
C7_NoMatchReturnsEmpty ==
    (srch[1].pc = "done" /\ ~srch[1].anyFail /\ ~srch[1].anyMatch)
    => (srch[1].outcome = "returned" /\ srch[1].returned = <<>>)

\* The 44-character address query no account has: the scan fetched transactions and
\* resolved mints, none matched.
C7_Witness ==
    /\ srch[1].query = "NOADDR"
    /\ srch[1].pc = "done"
    /\ ~srch[1].anyFail
    /\ srch[1].returned = <<>>
    /\ \E k \in 1..Len(srch[1].tasks) :
          srch[1].tasks[k].fetch = "ok" /\ TxOf(srch[1].tasks[k].sig).mints # <<>>

Addresses(tokens) == {tokens[i].address : i \in 1..Len(tokens)}

\* C8: a task whose fetch failed after its retries does not end the scan: the call
\* does not raise on it, the tasks started with it run to their end, and every mint
\* a task accepted for the query is in the merge map, at every moment and when the
\* scan ends.
C8_FailedFetchIsSkipped ==
    /\ \A k \in 1..Len(srch[1].tasks) : srch[1].tasks[k].found \subseteq Addresses(srch[1].results)
    /\ (\E k \in 1..Len(srch[1].tasks) : srch[1].tasks[k].fetch = "failed") =>
          /\ srch[1].outcome # "raised"
          /\ srch[1].pc = "done" =>
                /\ srch[1].outcome = "returned"
                /\ \A k \in 1..Min(srch[1].next, Len(srch[1].sigs)) : srch[1].tasks[k].pc = "done"

\* The first signature's fetch failed, the second one, of the same batch, gave a
\* matching mint that the call returned.
C8_Witness ==
    /\ srch[1].pc = "done"
    /\ Len(srch[1].tasks) >= BatchSize
    /\ srch[1].tasks[1].fetch = "failed"
    /\ srch[1].tasks[2].found # {}
    /\ srch[1].tasks[2].found \subseteq Addresses(srch[1].returned)

\* C9: a call in which no remote call succeeded ends raising, never returning a list.
C9_TotalFailureRaises ==
    (srch[1].pc = "done" /\ ~srch[1].anyOk) => srch[1].outcome = "raised"

\* The symbol lookup, the resolution of the registry's BONK and the listing all
\* failed on every attempt.
C9_Witness ==
    /\ srch[1].query = "BONK"
    /\ srch[1].pc = "done"
    /\ srch[1].outcome = "raised"
    /\ srch[1].anyFail
    /\ ~srch[1].anyOk

\* C10: the call raises only if every source failed: a call in which some remote
\* call succeeded (the symbol lookup answered, even with no record) returns a list.
C10_RaisesOnlyWhenAllFailed ==
    (srch[1].pc = "done" /\ srch[1].anyOk) => srch[1].outcome = "returned"

KnownRecords(tokens) == {tokens[i] : i \in {j \in 1..Len(tokens) : tokens[j].source = "known"}}

\* C11: in the time-range variant, a call whose registry pass put a record in the
\* merge map returns a list holding that record, even when the signature listing of
\* the ledger scan failed after its retries: the call does not raise.
C11_KnownSurvivesListingFailure ==
    (srch[1].variant = "range" /\ srch[1].pc = "done" /\ KnownRecords(srch[1].results) # {})
    => /\ srch[1].outcome = "returned"
       /\ KnownRecords(srch[1].results) \subseteq KnownRecords(srch[1].returned)


(***************************************************************************)
(* SpecWide: one call of helius.ts's searchTokens on a ledger whose recent *)
(* transactions hold several mints close to the query: a mint whose        *)
(* address is the queried one in another letter case, and a mint named     *)
(* after the queried address.                                              *)
(***************************************************************************)
WideQueries == {"DOGE", "DOGEADDR", "BONKADDR"}

WideListings == { <<"s7">>, <<"s2", "s7", "s1">> }

InitWide ==
    /\ rt = RetryIdle
    /\ cache = <<>>
    /\ clock = 0
    /\ probe = ProbeIdle
    /\ res = ResIdle
    /\ det = DetailsIdle
    /\ fast = FastIdle
    /\ \E q \in WideQueries :
          srch = [s \in Searches |-> IF s = 1 THEN StartSearch("staged", q, "24h") ELSE IdleSearch]

NextWide ==
    \/ \E plan \in Plans(3), items \in DasResponses(srch[1].query) : DasDone(1, plan, items)
    \/ \E mintPlan \in Plans(2), metaPlan \in Plans(1) : KnownDone(1, 1, mintPlan, metaPlan)
    \/ \E plan \in Plans(2), listing \in WideListings : ListingDone(1, plan, listing)
    \/ Scan(1)

SpecWide == InitWide /\ [][NextWide]_vars

\* The mint whose address a query spells, if it spells one.
QueryMint(q) ==
    CASE q = "BONKADDR" -> "BONK"
      [] q = "DOGEADDR" -> "DOGE"
      [] OTHER -> "none"

\* C12: when the query is the address of a mint, the returned list holds at most one
\* record and its address is the query: no record of another address is returned.
C12_AddressQueryReturnsThatMint ==
    (srch[1].pc = "done" /\ srch[1].outcome = "returned" /\ QueryMint(srch[1].query) # "none")
    => /\ Len(srch[1].returned) <= 1
       /\ \A i \in 1..Len(srch[1].returned) : srch[1].returned[i].address = QueryMint(srch[1].query)

\* [A-Za-z0-9 _-]
IsCleanChar(c) == c \in (48..57) \cup (65..90) \cup (97..122) \cup {32, 95, 45}

IsCleanText(text) ==
    \/ text = STR_UNKNOWN
    \/ Len(text) >= 2 /\ \A i \in 1..Len(text) : IsCleanChar(text[i])

\* C13: every record of a returned list has a name and a symbol that are "Unknown"
\* or at least 2 characters long and made of letters, digits, space, underscore and
\* dash only, whichever stage produced the record.
C13_ReturnedNamesAreSanitized ==
    (srch[1].pc = "done" /\ srch[1].outcome = "returned")
    => \A i \in 1..Len(srch[1].returned) :
          IsCleanText(srch[1].returned[i].name) /\ IsCleanText(srch[1].returned[i].symbol)

\* C14: every record of a returned list passes the match-check of the query with its
\* own name, symbol and address, whichever stage produced the record.
C14_ReturnedRecordsMatch ==
    (srch[1].pc = "done" /\ srch[1].outcome = "returned")
    => \A i \in 1..Len(srch[1].returned) :
          matchesTokenQuery(QueryStr(srch[1].query), srch[1].returned[i].name,
                            srch[1].returned[i].symbol, AddrStr(srch[1].returned[i].address))

\* C15: in every record of a returned list, isNewToken is true exactly when the
\* record has a mintDate and that date is at most 24 hours before now.
C15_IsNewTokenIffFresh ==
    (srch[1].variant = "staged" /\ srch[1].pc = "done" /\ srch[1].outcome = "returned")
    => \A i \in 1..Len(srch[1].returned) :
          srch[1].returned[i].isNewToken
             <=> (srch[1].returned[i].mintDate # NoDate
                    /\ NowMs - srch[1].returned[i].mintDate <= DayMs)


(***************************************************************************)
(* SpecWindow: one call of the time-range variant (part_002) for each of   *)
(* the ranges a caller may pass.                                           *)
(***************************************************************************)
WindowListings == { <<"s1", "s2">>, <<"s5", "s1", "s4">> }

InitWindow ==
    /\ rt = RetryIdle
    /\ cache = <<>>
    /\ clock = 0
    /\ probe = ProbeIdle
    /\ res = ResIdle
    /\ det = DetailsIdle
    /\ fast = FastIdle
    /\ \E range \in TimeRanges, q \in {"BONK", "DOGE"} :
          srch = [s \in Searches |-> IF s = 1 THEN StartSearch("range", q, range) ELSE IdleSearch]

NextWindow ==
    \/ \E mintPlan \in Plans(2), metaPlan \in Plans(1) : KnownDone(1, 1, mintPlan, metaPlan)
    \/ \E plan \in Plans(2), listing \in WindowListings : ListingDone(1, plan, listing)
    \/ Scan(1)

SpecWindow == InitWindow /\ [][NextWindow]_vars

RangeRank(range) ==
    CASE range = "24h" -> 1
      [] range = "7d" -> 2
      [] range = "30d" -> 3
      [] range = "all" -> 4

\* The record as a search of the given range stores it.
StoredFor(range, rec) == Stored([srch[1] EXCEPT !.timeRange = range], rec)

\* C16: in the time-range variant, the isNewToken of a record the scan stored is the
\* one computed from the caller's range, and for the same record and the same now a
\* larger range never gives false where a smaller range gives true.
C16_LargerRangeKeepsNew ==
    srch[1].variant = "range" =>
       \A i \in 1..Len(srch[1].results) :
          LET rec == srch[1].results[i]
          IN  /\ rec.isNewToken = StoredFor(srch[1].timeRange, rec).isNewToken
              /\ \A r1, r2 \in TimeRanges :
                    (RangeRank(r1) <= RangeRank(r2) /\ StoredFor(r1, rec).isNewToken)
                    => StoredFor(r2, rec).isNewToken

\* A search of the last 7 days returned a record new for that range that a search of
\* the last 24 hours would store as not new.
C16_Witness ==
    /\ srch[1].variant = "range"
    /\ srch[1].timeRange = "7d"
    /\ srch[1].pc = "done"
    /\ \E i \in 1..Len(srch[1].returned) :
          /\ srch[1].returned[i].mintDate # NoDate
          /\ srch[1].returned[i].isNewToken
          /\ ~StoredFor("24h", srch[1].returned[i]).isNewToken

\* C27: in the time-range variant, for every range, a transaction whose block time is
\* unknown is not excluded by the time-range filter: each of its mints is handed to the
\* resolver unless the merge map holds it already, a mint the task accepted is in the
\* merge map, and the undated records of the map are in the returned list as far as
\* the result cap lets them.
C27_UndatedNotExcluded ==
    srch[1].variant = "range" =>
       /\ \A k \in 1..Len(srch[1].tasks) :
             LET task == srch[1].tasks[k]
                 tx == TxOf(task.sig)
             IN  (task.fetch \in {"ok", "hit"} /\ tx.blockTime = NoBlockTime) =>
                    /\ \A i \in 1..Len(tx.mints) :
                          \/ \E j \in 1..Len(task.handed) : task.handed[j] = tx.mints[i]
                          \/ ResultsHas(srch[1].results, tx.mints[i])
                    /\ \A m \in task.found : ResultsHas(srch[1].results, m)
       /\ (srch[1].pc = "done" /\ srch[1].outcome = "returned") =>
             \A i \in 1..Len(srch[1].results) :
                srch[1].results[i].mintDate = NoDate =>
                   \/ \E j \in 1..Len(srch[1].returned) :
                         srch[1].returned[j] = srch[1].results[i]
                   \/ Len(srch[1].returned) = ResultCap

\* A search of the last 24 hours processed a transaction without block time, accepted
\* its mint and returned the undated record.
C27_Witness ==
    /\ srch[1].variant = "range"
    /\ srch[1].timeRange = "24h"
    /\ srch[1].pc = "done"
    /\ \E k \in 1..Len(srch[1].tasks) :
          /\ TxOf(srch[1].tasks[k].sig).blockTime = NoBlockTime
          /\ \E m \in srch[1].tasks[k].found :
                \E j \in 1..Len(srch[1].returned) :
                   srch[1].returned[j].address = m /\ srch[1].returned[j].mintDate = NoDate

\* C17: a returned list never holds more records than the result cap, after the
\* ledger scan as after the early return of the symbol lookup (which asks the
\* service for at most DasLimit items).
C17_ResultCap ==
    (srch[1].pc = "done" /\ srch[1].outcome = "returned") => Len(srch[1].returned) <= ResultCap

\* The scan left more records in the merge map than the cap, and the call returned
\* as many as the cap.
C17_Witness ==
    /\ srch[1].pc = "done"
    /\ srch[1].outcome = "returned"
    /\ Len(srch[1].results) > ResultCap
    /\ Len(srch[1].returned) = ResultCap

\* b has to come before a: b is known and a is not, or both are of the same class and
\* b is dated while a is undated or older.
MustPrecede(b, a) ==
    \/ b.source = "known" /\ a.source # "known"
    \/ /\ (b.source = "known") = (a.source = "known")
       /\ b.mintDate # NoDate
       /\ (a.mintDate = NoDate \/ b.mintDate > a.mintDate)

\* C18: in every returned list the known records come first, and within the known
\* records as within the others the order is descending mintDate, undated last.
C18_ResultOrder ==
    (srch[1].pc = "done" /\ srch[1].outcome = "returned")
    => \A i, j \in 1..Len(srch[1].returned) :
          i < j => ~MustPrecede(srch[1].returned[j], srch[1].returned[i])

\* C19: neither the merge map nor a returned list holds two records of one address,
\* however many transactions and tasks produced the address.
C19_NoDuplicateAddress ==
    /\ \A i, j \in 1..Len(srch[1].results) :
          srch[1].results[i].address = srch[1].results[j].address => i = j
    /\ \A i, j \in 1..Len(srch[1].returned) :
          srch[1].returned[i].address = srch[1].returned[j].address => i = j

\* Two tasks of the scan, running together, each resolved and accepted the same mint,
\* and the call returned it.
C19_Witness ==
    /\ srch[1].pc = "done"
    /\ \E k1, k2 \in 1..Len(srch[1].tasks) :
          /\ k1 # k2
          /\ srch[1].tasks[k1].found \cap srch[1].tasks[k2].found # {}
          /\ srch[1].tasks[k1].found \subseteq Addresses(srch[1].returned)

\* C20: when both fetches of a resolution succeeded and the account is a mint, the
\* resolver of helius.ts returns absent only if the final name and the final symbol
\* are both "Unknown": a mint with one of the two known yields a record.
C20_RejectsOnlyWhenBothUnknown ==
    srch[1].variant = "staged" =>
       \A k \in 1..Len(srch[1].tasks) : \A m \in srch[1].tasks[k].absent :
          ChainAccount(m).kind = "mint" =>
             /\ TokenName(ChainAccount(m), DecodeMetadata(MetadataAccount(m))) = STR_UNKNOWN
             /\ TokenSymbol(ChainAccount(m), DecodeMetadata(MetadataAccount(m))) = STR_UNKNOWN

(***************************************************************************)
(* SpecMatch: calls of helius.ts's matchesTokenQuery.  After a call, the   *)
(* caller changes the letter case of one argument, or adds white space     *)
(* before or after it, and calls again.                                    *)
(***************************************************************************)
MaxVary == 2

InitMatch ==
    LET queries == { <<32, 66, 79, 78, 75, 32>>,                         \* " BONK "
                     <<98, 111, 110, 107>>,                              \* "bonk"
                     <<100, 111, 103, 101, 32, 99, 111, 105, 110>>,      \* "doge coin"
                     <<100, 111, 103, 101, 99, 111, 105, 110>>,          \* "dogecoin"
                     AddrStr("BONK") }
        names == { <<66, 111, 110, 107>>,                                \* "Bonk"
                   <<83, 111, 108, 66, 111, 110, 107>>,                  \* "SolBonk"
                   <<68, 111, 103, 101, 83, 111, 108>>,                  \* "DogeSol"
                   <<68, 111, 103, 101, 99, 111, 105, 110>> }            \* "Dogecoin"
        symbols == { <<66, 79, 78, 75>>,                                 \* "BONK"
                     <<83, 66, 75>>,                                     \* "SBK"
                     <<68, 79, 71, 69>> }                                \* "DOGE"
    IN  /\ rt = RetryIdle
        /\ cache = <<>>
        /\ clock = 0
        /\ srch = [s \in Searches |-> IdleSearch]
        /\ fast = FastIdle
        /\ res = ResIdle
        /\ det = DetailsIdle
        /\ \E q \in queries, n \in names, y \in symbols :
              probe = [ProbeIdle EXCEPT !.pc = "call", !.query = q, !.name = n,
                                        !.symbol = y, !.address = AddrStr("BONK")]

\* Lines 101-137: one call, from its arguments to its result.
MatchCall ==
    /\ probe.pc = "call"
    /\ LET result == matchesTokenQuery(probe.query, probe.name, probe.symbol, probe.address)
       IN  probe' = [probe EXCEPT !.pc = "done", !.result = result,
                                  !.first = IF probe.calls = 0 THEN result ELSE @,
                                  !.calls = @ + 1]
    /\ UNCHANGED <<rt, cache, srch, clock, fast, res, det>>

\* The caller's next call: one argument in another letter case (ASCII letters) or with
\* white space added.
MatchVary ==
    LET UpperChar(c) == IF c >= 97 /\ c <= 122 THEN c - 32 ELSE c
        Vary(how, str) ==
            CASE how = "upper" -> [i \in 1..Len(str) |-> UpperChar(str[i])]
              [] how = "lower" -> ToLower(str)
              [] how = "padLeft" -> <<32>> \o str
              [] how = "padRight" -> str \o <<9>>
    IN  /\ probe.pc = "done"
        /\ probe.calls <= MaxVary
        /\ \E how \in {"upper", "lower", "padLeft", "padRight"} :
              \/ probe' = [probe EXCEPT !.pc = "call", !.query = Vary(how, @)]
              \/ probe' = [probe EXCEPT !.pc = "call", !.name = Vary(how, @)]
              \/ probe' = [probe EXCEPT !.pc = "call", !.symbol = Vary(how, @)]
              \/ probe' = [probe EXCEPT !.pc = "call", !.address = Vary(how, @)]
        /\ UNCHANGED <<rt, cache, srch, clock, fast, res, det>>

NextMatch == MatchCall \/ MatchVary

SpecMatch == InitMatch /\ [][NextMatch]_vars

\* C23: the result of matchesTokenQuery is unchanged when the letter case of an argument
\* is changed or white space is added before or after an argument: every later call of
\* a series gives the result of the first.  The call (" BONK ", "Bonk", "BONK", address)
\* gives true.
C23_CaseAndSpaceInsensitive ==
    probe.pc = "done" =>
       /\ probe.result = probe.first
       /\ (/\ probe.query = <<32, 66, 79, 78, 75, 32>>
           /\ probe.name = <<66, 111, 110, 107>>
           /\ probe.symbol = <<66, 79, 78, 75>>) => probe.result

\* A third call, whose name has been padded and whose query is in capitals, matched as
\* the first did.
C23_Witness ==
    /\ probe.pc = "done"
    /\ probe.calls = 3
    /\ probe.result
    /\ probe.name = <<32, 66, 111, 110, 107>>
    /\ probe.query = <<66, 79, 78, 75>>
    /\ probe.symbol = <<83, 66, 75>>

\* The forms of a query word the claim C24 lists.
VariantForms(w) ==
    { Append(w, 115),
      IF w[Len(w)] = 115 THEN SubSeq(w, 1, Len(w) - 1) ELSE w \o <<115>>,
      Append(w, 50), Append(w, 51),
      w \o <<105, 110, 117>>, w \o <<115, 111, 108>>, <<115, 111, 108>> \o w,
      w \o <<99, 111, 105, 110>>, w \o <<116, 111, 107, 101, 110>> }

\* C24: matchesTokenQuery returns true whenever, for a query word w of two characters
\* or more, one of w+"s", w without its final "s", w+"2", w+"3", w+"inu", w+"sol",
\* "sol"+w, w+"coin", w+"token" occurs in the name or in the symbol.
C24_VariantFormsMatch ==
    probe.pc = "done" =>
       LET words == SplitWords(Trim(ToLower(probe.query)))
           name == Trim(ToLower(probe.name))
           symbol == Trim(ToLower(probe.symbol))
       IN  (\E k \in 1..Len(words) :
               /\ Len(words[k]) >= 2
               /\ \E f \in VariantForms(words[k]) : Includes(name, f) \/ Includes(symbol, f))
           => probe.result

(***************************************************************************)
(* SpecResolve: one call of helius.ts's searchTokens whose scan resolves   *)
(* mints with a metadata account that names them badly: a name that        *)
(* sanitizes to "Unknown", a payload cut short.  Neither the registry nor  *)
(* the symbol lookup knows the query.                                      *)
(***************************************************************************)
InitResolve ==
    /\ rt = RetryIdle
    /\ cache = <<>>
    /\ clock = 0
    /\ probe = ProbeIdle
    /\ res = ResIdle
    /\ det = DetailsIdle
    /\ fast = FastIdle
    /\ srch = [s \in Searches |-> IF s = 1 THEN StartSearch("staged", "MASK", "24h") ELSE IdleSearch]

NextResolve ==
    \/ \E plan \in Plans(3), items \in DasResponses(srch[1].query) : DasDone(1, plan, items)
    \/ \E plan \in Plans(2), listing \in { <<"s8">>, <<"s8", "s3", "s4">> } :
          ListingDone(1, plan, listing)
    \/ Scan(1)

SpecResolve == InitResolve /\ [][NextResolve]_vars

\* The name and the symbol the claim C21 gives a mint whose two fetches succeeded.
ExpectedName(m) ==
    LET metadata == DecodeMetadata(MetadataAccount(m))
    IN  IF metadata.present /\ metadata.name # STR_UNKNOWN
        THEN metadata.name ELSE sanitizeTokenText(ChainAccount(m).name)

ExpectedSymbol(m) ==
    LET metadata == DecodeMetadata(MetadataAccount(m))
    IN  IF metadata.present /\ metadata.symbol # STR_UNKNOWN
        THEN metadata.symbol ELSE sanitizeTokenText(ChainAccount(m).symbol)

\* C21: the resolved name (likewise the symbol) is the sanitized metadata value when
\* there is a metadata record and that value is not "Unknown", else the sanitized
\* value of the mint state: a record the scan stored carries these, and the resolver
\* gives up on a mint whose fetches succeeded only when these are rejected.
C21_FieldPrecedence ==
    /\ \A k \in 1..Len(srch[1].tasks) : \A m \in srch[1].tasks[k].absent :
          ChainAccount(m).kind = "mint" =>
             RejectsNames(srch[1].variant, ExpectedName(m), ExpectedSymbol(m))
    /\ \A i \in 1..Len(srch[1].results) :
          LET r == srch[1].results[i]
          IN  (r.source = "on-chain" /\ r.metadata.present) =>
                 r.name = ExpectedName(r.address) /\ r.symbol = ExpectedSymbol(r.address)

\* The payload holds the three fields of the layout lines 195-204 read.
Decodable(data) ==
    /\ data # NoMeta
    /\ Len(data) >= 5
    /\ LET n == data[5]
       IN  /\ Len(data) >= 6 + n
           /\ LET y == data[6 + n]
              IN  /\ Len(data) >= 7 + n + y
                  /\ Len(data) >= 7 + n + y + data[7 + n + y]

\* C22: when the metadata fetch fails on all its attempts, or the payload cannot be
\* decoded, while the mint fetch succeeds and the mint state has a valid name and a
\* valid symbol, the resolver returns a record, without metadata and named by the mint
\* state.
C22_MetadataFailureNonFatal ==
    /\ \A k \in 1..Len(srch[1].tasks) :
          \A m \in srch[1].tasks[k].dropped \cup
                    {x \in srch[1].tasks[k].absent : ~Decodable(MetadataAccount(x))} :
             ChainAccount(m).kind = "mint" =>
                \/ sanitizeTokenText(ChainAccount(m).name) = STR_UNKNOWN
                \/ sanitizeTokenText(ChainAccount(m).symbol) = STR_UNKNOWN
    /\ \A i \in 1..Len(srch[1].results) :
          LET r == srch[1].results[i]
          IN  (r.source = "on-chain" /\ ~r.metadata.present) =>
                 /\ r.name = sanitizeTokenText(ChainAccount(r.address).name)
                 /\ r.symbol = sanitizeTokenText(ChainAccount(r.address).symbol)

\* The tasks of the scan that are started and not over.
InFlight(sr) == {k \in 1..Len(sr.tasks) : sr.tasks[k].pc \in {"fetch", "resolve"}}

BatchOf(k) == (k - 1) \div BatchSize

GroupOf(k) == (k - 1) \div (BatchSize * BatchGroup)

\* C28: at every moment the tasks in flight belong to a single batch of at most
\* BatchSize signatures.
C28_SingleBatchInFlight ==
    \A k1, k2 \in InFlight(srch[1]) : BatchOf(k1) = BatchOf(k2)

\* C28, amended: at every moment the tasks in flight belong to a single group of at
\* most BatchGroup consecutive batches of at most BatchSize signatures each, and a step
\* starts tasks only when no task is in flight and either the listing has just arrived
\* or the delay after the previous group has elapsed.
C28_SingleGroupInFlight ==
    /\ [](/\ \A k1, k2 \in InFlight(srch[1]) : GroupOf(k1) = GroupOf(k2)
          /\ Cardinality(InFlight(srch[1])) <= BatchSize * BatchGroup
          /\ \A k1, k2 \in 1..Len(srch[1].tasks) :
                (GroupOf(k1) < GroupOf(k2) /\ srch[1].tasks[k2].pc # "idle")
                => srch[1].tasks[k1].pc = "done")
    /\ [][(\E k \in 1..Len(srch'[1].tasks) :
              /\ srch'[1].tasks[k].pc # "idle"
              /\ (k > Len(srch[1].tasks) \/ srch[1].tasks[k].pc = "idle"))
          => (srch[1].pc \in {"listing", "delay"} /\ InFlight(srch[1]) = {})]_vars

\* The first group of batches is over and a task of the second group is in flight.
C28_Witness ==
    \E k \in InFlight(srch[1]) :
       /\ GroupOf(k) = 1
       /\ \E k1, k2 \in 1..Len(srch[1].tasks) :
             /\ GroupOf(k1) = 0 /\ GroupOf(k2) = 0 /\ BatchOf(k1) # BatchOf(k2)
             /\ srch[1].tasks[k1].fetch = "ok" /\ srch[1].tasks[k2].fetch = "ok"

\* C29: during the ledger scan, once the merge map holds a record for a mint address,
\* no task that completes later replaces it: the record kept for an address, and so
\* its mintDate, is the first one written.
C29_FirstWriterWins ==
    [][ srch[1].pc \in {"awaitGroup", "awaitTail", "delay"} =>
           \A i \in 1..Len(srch[1].results) :
              /\ ResultsHas(srch'[1].results, srch[1].results[i].address)
              /\ RecordOf(srch'[1].results, srch[1].results[i].address) = srch[1].results[i]
      ]_vars

\* C30: during one ledger scan a mint address is handed to the resolver at most once,
\* in however many transactions it appears.
C30_ResolvedAtMostOnce ==
    \A m \in MintIds :
       Cardinality(UNION { { <<k, j>> : j \in { i \in 1..Len(srch[1].tasks[k].handed) :
                                                   srch[1].tasks[k].handed[i] = m } } :
                           k \in 1..Len(srch[1].tasks) }) <= 1

(***************************************************************************)
(* SpecFast: one call of the token-list searchTokens (src/unnamed/part_006)*)
(* and of the getTokenDetails it calls for a query as long as an address.  *)
(* Addresses are strings here, as the code compares and lowercases them.   *)
(* The two fetches of a creation-date lookup, and the two of a scan task,  *)
(* touch nothing shared between them and are one step each.                *)
(***************************************************************************)
AddressLength == 32

\* token.jup.ag/all: the tokens of the list.
JupiterTokens ==
    << [address |-> AddrStr("DOGE"), name |-> ChainAccount("DOGE").name, symbol |-> STR_DOGE],
       [address |-> AddrStr("BINU"), name |-> ChainAccount("BINU").name,
        symbol |-> ChainAccount("BINU").symbol] >>

\* new PublicKey(address) does not throw: base58 characters, of an address's length.
ValidKey(address) ==
    LET IsBase58(c) == \/ (c >= 49 /\ c <= 57)
                       \/ (c >= 65 /\ c <= 90 /\ c # 73 /\ c # 79)
                       \/ (c >= 97 /\ c <= 122 /\ c # 108)
    IN  /\ Len(address) >= 32 /\ Len(address) <= 44
        /\ \A i \in 1..Len(address) : IsBase58(address[i])

\* getParsedAccountInfo(new PublicKey(address)).value
AccountAt(address) ==
    IF \E m \in MintIds : AddrStr(m) = address
    THEN ChainAccount(CHOOSE m \in MintIds : AddrStr(m) = address)
    ELSE ChainAccount("GONE")

\* A searchTokens that goes on with the aggregators whatever the resolution gave.
FastReturn_NoShortCircuit(f, token) ==
    [f EXCEPT !.resolution = "record", !.results = ResultsSet(@, token),
              !.pc = "list", !.passes = @ \cup {"list"}]

\* Lines 43-46: the resolution gave a record; the call returns it alone.
FastReturn(f, token) ==
    [f EXCEPT !.resolution = "record", !.results = ResultsSet(@, token),
              !.returned = ResultsSet(f.results, token), !.outcome = "returned", !.pc = "done"]

\* Lines 43 and 47-54: the resolution gave null, or raised and the error was logged; the
\* token-list pass starts with its fetch.
FastContinue(f, how) ==
    [f EXCEPT !.resolution = how, !.pc = "list", !.passes = @ \cup {"list"}]

\* Lines 199-211: getTokenDetails after its creation-date lookup.
FastAfterCreated(f, createdAt) ==
    IF f.jupiterToken # <<>>
    THEN FastReturn(f, [address |-> f.jupiterToken[1].address, name |-> f.jupiterToken[1].name,
                        symbol |-> f.jupiterToken[1].symbol, source |-> "jupiter",
                        createdAt |-> createdAt])
    ELSE IF ValidKey(f.query) THEN [f EXCEPT !.createdAt = createdAt, !.pc = "d_account"]
    ELSE FastContinue(f, "absent")

\* Lines 109-114: the scan of the recent mints starts with its listing.
FastToScan(f) == [f EXCEPT !.pc = "scan", !.passes = @ \cup {"scan"}]

\* Line 167: the list returned.
FastFinish(f) ==
    [f EXCEPT !.returned = Take(f.results, ResultCap), !.outcome = "returned", !.pc = "done"]

\* Lines 178-189: the token list arrives in getTokenDetails, or its fetch fails and
\* getTokenDetails raises.
FastDetailsList(ok, tokens) ==
    /\ fast.pc = "d_list"
    /\ LET found == SelectSeq(tokens, LAMBDA t : t.address = fast.query)
           f == [fast EXCEPT !.jupiterToken = IF found = <<>> THEN <<>> ELSE <<found[1]>>]
       IN  fast' = IF ~ok THEN FastContinue(fast, "raised")
                   ELSE IF ValidKey(fast.query) THEN [f EXCEPT !.pc = "d_created"]
                   ELSE FastAfterCreated(f, NoDate)
    /\ UNCHANGED <<rt, cache, srch, clock, probe, res, det>>

\* Lines 186-197: the creation-date lookup of getTokenDetails settles.
FastDetailsCreated(outcome) ==
    /\ fast.pc = "d_created"
    /\ fast' = FastAfterCreated(fast, IF outcome = "dated" THEN 199990000 ELSE NoDate)
    /\ UNCHANGED <<rt, cache, srch, clock, probe, res, det>>

\* Lines 211-230: the account lookup of getTokenDetails settles.
FastDetailsAccount(ok) ==
    /\ fast.pc = "d_account"
    /\ LET account == AccountAt(fast.query)
       IN  fast' = IF ok /\ account.kind = "mint"
                   THEN FastReturn(fast,
                           [address |-> fast.query,
                            name |-> IF account.name = <<>> THEN STR_UNKNOWN ELSE account.name,
                            symbol |-> IF account.symbol = <<>> THEN STR_UNKNOWN ELSE account.symbol,
                            source |-> "on-chain", createdAt |-> fast.createdAt])
                   ELSE FastContinue(fast, "absent")
    /\ UNCHANGED <<rt, cache, srch, clock, probe, res, det>>

\* Lines 54-66 and 105-107: the token list arrives in searchTokens.
FastListDone(ok, tokens) ==
    /\ fast.pc = "list"
    /\ LET searchQuery == ToLower(fast.query)
           matchingTokens ==
               SelectSeq(tokens, LAMBDA t : \/ Includes(ToLower(t.symbol), searchQuery)
                                            \/ Includes(ToLower(t.name), searchQuery)
                                            \/ Includes(ToLower(t.address), searchQuery))
       IN  fast' = IF ~ok \/ matchingTokens = <<>> THEN FastToScan(fast)
                   ELSE [fast EXCEPT !.tokens = matchingTokens, !.pc = "list_dates"]
    /\ UNCHANGED <<rt, cache, srch, clock, probe, res, det>>

\* Lines 67-103: the creation-date lookup of the j-th matching token settles; the
\* token is stored with or without date.
FastListDate(j, outcome) ==
    /\ fast.pc = "list_dates"
    /\ j \in 1..Len(fast.tokens)
    /\ LET token == fast.tokens[j]
           rest == [i \in 1..(Len(fast.tokens) - 1) |->
                       IF i < j THEN fast.tokens[i] ELSE fast.tokens[i + 1]]
           stored == [fast EXCEPT
                        !.results = ResultsSet(@, [address |-> token.address, name |-> token.name,
                                                   symbol |-> token.symbol, source |-> "jupiter",
                                                   createdAt |-> IF outcome = "dated"
                                                                 THEN 199990000 ELSE NoDate]),
                        !.tokens = rest]
       IN  fast' = IF rest = <<>> THEN FastToScan(stored) ELSE stored
    /\ UNCHANGED <<rt, cache, srch, clock, probe, res, det>>

\* Lines 111-117 and 162-164: the listing of the recent signatures arrives.
FastScanListing(ok, listing) ==
    /\ fast.pc = "scan"
    /\ fast' = IF ~ok \/ listing = <<>> THEN FastFinish(fast)
               ELSE [fast EXCEPT !.todo = 1..Len(listing),
                                 !.mints = [k \in 1..Len(listing) |-> <<listing[k]>>],
                                 !.pc = "scan_txs"]
    /\ UNCHANGED <<rt, cache, srch, clock, probe, res, det>>

\* Lines 118-161: the task of the k-th signature settles with a mint or null; when
\* all have, the matching mints the map lacks are added and the list is returned.
FastScanTx(k, ok) ==
    /\ fast.pc = "scan_txs"
    /\ k \in fast.todo
    /\ LET tx == TxOf(fast.mints[k][1])
           mintAddress == AddrStr(tx.mints[1])
           account == ChainAccount(tx.mints[1])
           mint == IF ok /\ tx.found /\ tx.mints # <<>> /\ account.kind = "mint"
                   THEN << [address |-> mintAddress,
                            name |-> IF account.name = <<>> THEN STR_UNKNOWN ELSE account.name,
                            symbol |-> IF account.symbol = <<>> THEN STR_UNKNOWN ELSE account.symbol,
                            source |-> "on-chain",
                            createdAt |-> IF tx.blockTime # NoBlockTime
                                          THEN tx.blockTime * 1000 ELSE NoDate] >>
                   ELSE << [address |-> <<>>] >>
           f == [fast EXCEPT !.mints[k] = mint, !.todo = @ \ {k}]
           searchQuery == ToLower(fast.query)
           Kept(i) == /\ f.mints[i][1].address # <<>>
                      /\ (\/ Includes(ToLower(f.mints[i][1].symbol), searchQuery)
                          \/ Includes(ToLower(f.mints[i][1].name), searchQuery))
                      /\ ~ResultsHas(f.results, f.mints[i][1].address)
                      /\ \A h \in 1..(i - 1) : f.mints[h][1].address # f.mints[i][1].address
           added == SelectSeq([i \in 1..Len(f.mints) |-> i], Kept)
       IN  fast' = IF f.todo # {} THEN f
                   ELSE FastFinish([f EXCEPT !.results =
                                       @ \o [i \in 1..Len(added) |-> f.mints[added[i]][1]]])
    /\ UNCHANGED <<rt, cache, srch, clock, probe, res, det>>

\* Lines 35-42 and 54: the call up to its first await.
InitFast ==
    /\ rt = RetryIdle
    /\ cache = <<>>
    /\ clock = 0
    /\ srch = [s \in Searches |-> IdleSearch]
    /\ probe = ProbeIdle
    /\ res = ResIdle
    /\ det = DetailsIdle
    /\ \E q \in { AddrStr("DOGE"), AddrStr("DOGL"), AddrStr("GONE"), STR_DOGE,
                  Repeat(<<48>>, AddressLength) } :
          fast = IF Len(ToLower(q)) >= AddressLength
                 THEN [FastIdle EXCEPT !.query = q, !.pc = "d_list"]
                 ELSE [FastIdle EXCEPT !.query = q, !.pc = "list", !.passes = {"list"}]

NextFast ==
    \/ \E ok \in BOOLEAN, tokens \in {<<>>, JupiterTokens} : FastDetailsList(ok, tokens)
    \/ \E outcome \in {"failed", "none", "undated", "dated"} : FastDetailsCreated(outcome)
    \/ \E ok \in BOOLEAN : FastDetailsAccount(ok)
    \/ \E ok \in BOOLEAN, tokens \in {<<>>, JupiterTokens} : FastListDone(ok, tokens)
    \/ \E j \in 1..Len(fast.tokens), outcome \in {"failed", "none", "undated", "dated"} :
          FastListDate(j, outcome)
    \/ \E ok \in BOOLEAN, listing \in {<<>>, <<"s2">>, <<"s4", "s7", "s3">>} :
          FastScanListing(ok, listing)
    \/ \E k \in fast.todo, ok \in BOOLEAN : FastScanTx(k, ok)

SpecFast == InitFast /\ [][NextFast]_vars

\* C26: in the token-list variant, a query of an address's length is first resolved
\* itself, before any aggregator pass starts.  The call returns at once, with exactly
\* one record whose address is the query and without the token-list pass or the scan
\* having run, exactly when the resolution gave a record; when it gave none or raised,
\* the call goes on with the aggregators and ends returning a list.
C26_AddressFastPath ==
    /\ (Len(fast.query) >= AddressLength /\ Len(fast.query) <= 44 /\ fast.pc # "idle") =>
          (fast.passes # {} => fast.resolution # "none")
    /\ fast.resolution = "record" =>
          /\ fast.pc = "done" /\ fast.outcome = "returned" /\ fast.passes = {}
          /\ Len(fast.returned) = 1 /\ fast.returned[1].address = fast.query
    /\ (fast.pc = "done" /\ fast.passes = {}) => fast.resolution = "record"
    /\ fast.resolution \in {"absent", "raised"} =>
          /\ "list" \in fast.passes
          /\ fast.outcome # "raised"
          /\ fast.pc = "done" => (fast.outcome = "returned" /\ fast.passes = {"list", "scan"})

\* The query is the address of a mint the token list lacks: the resolution read the
\* account, and the call returned that one record at once.
C26_Witness ==
    /\ fast.pc = "done"
    /\ fast.query = AddrStr("DOGL")
    /\ fast.resolution = "record"
    /\ fast.returned = << fast.results[1] >>
    /\ fast.returned[1].source = "on-chain"

\* C31: two scan tasks of interleaved searches that handle the same signature never
\* both have its remote fetch under way: one fetches, the other reads the cached entry.
C31_OneFetchPerSignature ==
    \A k1 \in 1..Len(srch[1].tasks), k2 \in 1..Len(srch[2].tasks) :
       srch[1].tasks[k1].sig = srch[2].tasks[k2].sig =>
          ~(srch[1].tasks[k1].pc = "fetch" /\ srch[2].tasks[k2].pc = "fetch")

\* The stage of helius.ts's searchTokens a call is in.
StageRank(pc) ==
    CASE pc = "das" -> 1
      [] pc = "known" -> 2
      [] pc = "listing" -> 3
      [] pc \in {"awaitGroup", "awaitTail", "delay"} -> 4
      [] OTHER -> 5

\* C32: the stages of helius.ts's searchTokens run in the order symbol lookup (only for
\* a query of at most TickerLength characters, and then first), known registry, ledger
\* scan; a stage is entered only with an empty merge map, so the scan makes no remote
\* call in a search where an earlier stage produced a record.
C32_StagedExecution ==
    /\ [](/\ srch[1].pc = "das" =>
                (Len(QueryStr(srch[1].query)) <= TickerLength /\ srch[1].results = <<>>
                 /\ ~srch[1].anyOk /\ ~srch[1].anyFail)
          /\ (srch[1].pc \in {"known", "listing"} /\ Len(QueryStr(srch[1].query)) <= TickerLength)
                => (srch[1].anyOk \/ srch[1].anyFail)
          /\ srch[1].pc = "known" =>
                (srch[1].sigs = <<>> /\ \A i \in 1..Len(srch[1].results) :
                                           srch[1].results[i].source = "known")
          /\ srch[1].pc = "listing" => (srch[1].results = <<>> /\ srch[1].knownPending = <<>>)
          /\ (\E i \in 1..Len(srch[1].results) : srch[1].results[i].source # "on-chain")
                => (srch[1].pc \in {"known", "done"} /\ srch[1].sigs = <<>> /\ srch[1].tasks = <<>>))
    /\ [][ /\ StageRank(srch'[1].pc) >= StageRank(srch[1].pc)
           /\ (srch[1].results # <<>> /\ StageRank(srch[1].pc) < 3) => StageRank(srch'[1].pc) # 3
         ]_vars

\* The symbol lookup answered nothing, the registry pass produced the BONK record, and
\* the call returned it without asking for the recent signatures.
C32_Witness ==
    /\ srch[1].pc = "done"
    /\ srch[1].outcome = "returned"
    /\ Len(QueryStr(srch[1].query)) <= TickerLength
    /\ Len(srch[1].returned) = 1
    /\ srch[1].returned[1].source = "known"
    /\ srch[1].sigs = <<>>
    /\ srch[1].tasks = <<>>

\* C33: when searchTokens has returned, every task of the scan it started is over, and
\* no step changes the merge map of the call or the transaction cache afterwards, also
\* when the batch loop stopped before the end of the listing because the map was full.
C33_Quiescence ==
    /\ [](srch[1].pc = "done" =>
             \A k \in 1..Len(srch[1].tasks) :
                srch[1].tasks[k].pc \in {"idle", "done"} /\ srch[1].tasks[k].pending = <<>>)
    /\ [][srch[1].pc = "done" => (srch'[1].results = srch[1].results /\ cache' = cache)]_vars

\* The call returned after a first group of batches filled the map: the tasks of the
\* group are over and the signature behind them was never started.
C33_Witness ==
    /\ srch[1].pc = "done"
    /\ srch[1].outcome = "returned"
    /\ Len(srch[1].results) >= ScanCap
    /\ \E k \in 1..Len(srch[1].tasks) : srch[1].tasks[k].pc = "idle"
    /\ \E k \in 1..Len(srch[1].tasks) : srch[1].tasks[k].found # {}

(***************************************************************************)
(* getTokenInfoFromMint, fetch by fetch (helius.ts lines 164-238).           *)
(* The two retryWithBackoff calls of lines 171-178 run side by side, each    *)
(* remote call taking as long as it takes; Promise.all settles when both     *)
(* have fulfilled or as soon as the first one rejects, and the metadata      *)
(* call never rejects (its .catch gives null).                               *)
(***************************************************************************)
\* One attempt of the fetch `which` (tokenInfo: line 172, metadataInfo: line 175)
\* resolves as `out`; the await of line 171 then goes on if Promise.all has settled:
\* to the catch of line 235 when the mint fetch is out of retries, to the body when
\* both fetches are over.
InfoAttempt(which, out, jitter) ==
    /\ res.pc # "idle"
    /\ res[which].pc = "call"
    /\ LET after == [res EXCEPT ![which] = RetryOnAttempt(@, out, jitter)]
           tokenInfo == getTokenInfoFromMint("staged", after.mint, NoBlockTime,
                                             after.tokenInfo, after.metadataInfo)
       IN  res' = IF after.pc # "fetching" THEN after
                  ELSE IF after.tokenInfo.status = "thrown"
                  THEN [after EXCEPT !.pc = "done", !.outcome = "null"]
                  ELSE IF after.tokenInfo.pc = "done" /\ after.metadataInfo.pc = "done"
                  THEN [after EXCEPT !.pc = "done",
                                     !.outcome = IF tokenInfo = NoToken THEN "null" ELSE "record"]
                  ELSE after
    /\ UNCHANGED <<rt, cache, srch, clock, probe, fast, det>>

\* The retry delay of the fetch `which` is over (line 93).
InfoWake(which) ==
    /\ res.pc # "idle"
    /\ res[which].pc = "sleep"
    /\ res' = [res EXCEPT ![which] = RetryOnWake(@)]
    /\ UNCHANGED <<rt, cache, srch, clock, probe, fast, det>>

InitInfo ==
    /\ rt = RetryIdle
    /\ cache = <<>>
    /\ clock = 0
    /\ srch = [s \in Searches |-> IdleSearch]
    /\ probe = ProbeIdle
    /\ fast = FastIdle
    /\ det = DetailsIdle
    /\ \E m \in {"DOGE", "GONE", "JUNK"} :
          res = [ResIdle EXCEPT !.pc = "fetching", !.mint = m,
                                !.tokenInfo = RetryStart(2, 1000, 10000),
                                !.metadataInfo = RetryStart(1, 1000, 10000)]

NextInfo ==
    \/ \E which \in {"tokenInfo", "metadataInfo"},
          out \in {Ok("v1"), Fail(ERR_TIMEOUT), Fail(ERR_RATE)} : InfoAttempt(which, out, 0)
    \/ \E which \in {"tokenInfo", "metadataInfo"} : InfoWake(which)

SpecInfo == InitInfo /\ [][NextInfo]_vars

\* C34: when getTokenInfoFromMint has returned, neither of its two fetches has a remote
\* call or a retry delay pending, also when the mint fetch failed.
C34_BothFetchesOver ==
    res.pc = "done" => (res.tokenInfo.pc = "done" /\ res.metadataInfo.pc = "done")

DetailsSignatures(ok, signatures) ==
    /\ det.pc = "sigs"
    /\ LET key(i) == TxOf(signatures[i]).blockTime
           first == CHOOSE i \in 1..Len(signatures) :
                       \A j \in 1..Len(signatures) :
                          key(i) < key(j) \/ (key(i) = key(j) /\ i <= j)
       IN  det' = IF det.address = "BAD" \/ ~ok
                  THEN [det EXCEPT !.pc = "account", !.lookup = "failed"]
                  ELSE IF Len(signatures) = 0
                  THEN [det EXCEPT !.pc = "account", !.lookup = "empty"]
                  ELSE [det EXCEPT !.pc = "tx", !.first = signatures[first]]
    /\ UNCHANGED <<rt, cache, srch, clock, probe, fast, res>>

\* Lines 540-545: getTransaction of the earliest signature answers or fails.
DetailsTransaction(ok) ==
    /\ det.pc = "tx"
    /\ LET tx == TxOf(det.first)
       IN  det' = IF ~ok
                  THEN [det EXCEPT !.pc = "account", !.lookup = "failed"]
                  ELSE IF tx.found /\ tx.blockTime # NoBlockTime
                  THEN [det EXCEPT !.pc = "account", !.lookup = "dated",
                                   !.mintDate = tx.blockTime * 1000]
                  ELSE [det EXCEPT !.pc = "account", !.lookup = "undated"]
    /\ UNCHANGED <<rt, cache, srch, clock, probe, fast, res>>

\* The account fetch outside any try block: its failure leaves the function.
DetailsAccount_Unguarded(ok) ==
    /\ det.pc = "account"
    /\ LET account == ChainAccount(det.address)
           isNewToken == IF det.mintDate # NoDate THEN NowMs - det.mintDate <= DayMs ELSE FALSE
           record == [address |-> det.address,
                      name |-> IF account.name # <<>> THEN account.name ELSE STR_UNKNOWN,
                      symbol |-> IF account.symbol # <<>> THEN account.symbol ELSE STR_UNKNOWN,
                      source |-> "on-chain", mintDate |-> det.mintDate,
                      isNewToken |-> isNewToken]
       IN  det' = IF det.address = "BAD" \/ ~ok
                  THEN [det EXCEPT !.pc = "done", !.account = "failed", !.outcome = "raised"]
                  ELSE IF account.kind = "mint"
                  THEN [det EXCEPT !.pc = "done", !.account = "mint", !.outcome = "record",
                                   !.returned = record]
                  ELSE [det EXCEPT !.pc = "done", !.account = account.kind, !.outcome = "null"]
    /\ UNCHANGED <<rt, cache, srch, clock, probe, fast, res>>

\* Lines 548-572: getParsedAccountInfo answers or fails; line 572 returns null.
DetailsAccount(ok) ==
    /\ det.pc = "account"
    /\ LET account == ChainAccount(det.address)
           isNewToken == IF det.mintDate # NoDate THEN NowMs - det.mintDate <= DayMs ELSE FALSE
           record == [address |-> det.address,
                      name |-> IF account.name # <<>> THEN account.name ELSE STR_UNKNOWN,
                      symbol |-> IF account.symbol # <<>> THEN account.symbol ELSE STR_UNKNOWN,
                      source |-> "on-chain", mintDate |-> det.mintDate,
                      isNewToken |-> isNewToken]
       IN  det' = IF det.address = "BAD" \/ ~ok
                  THEN [det EXCEPT !.pc = "done", !.account = "failed", !.outcome = "null"]
                  ELSE IF account.kind = "mint"
                  THEN [det EXCEPT !.pc = "done", !.account = "mint", !.outcome = "record",
                                   !.returned = record]
                  ELSE [det EXCEPT !.pc = "done", !.account = account.kind, !.outcome = "null"]
    /\ UNCHANGED <<rt, cache, srch, clock, probe, fast, res>>

InitDetails ==
    /\ rt = RetryIdle
    /\ cache = <<>>
    /\ clock = 0
    /\ srch = [s \in Searches |-> IdleSearch]
    /\ probe = ProbeIdle
    /\ fast = FastIdle
    /\ res = ResIdle
    /\ \E a \in MintIds \cup {"ACCT", "BAD"} :
          det = [DetailsIdle EXCEPT !.pc = "sigs", !.address = a]

NextDetails ==
    \/ \E ok \in BOOLEAN,
          signatures \in {<<>>, <<"s2">>, <<"s2", "s1">>, <<"s7", "s2", "s6">>,
                          <<"s2", "s3", "s4">>, <<"s5", "s4", "s1">>} :
          DetailsSignatures(ok, signatures)
    \/ \E ok \in BOOLEAN : DetailsTransaction(ok)
    \/ \E ok \in BOOLEAN : DetailsAccount(ok)

SpecDetails == InitDetails /\ [][NextDetails]_vars

\* C36: getTokenDetails never raises; it returns a record exactly when the account
\* fetch succeeded and the account is a mint, and null otherwise, however the mint-date
\* lookup ended; the lookup decides only whether the record carries a mint date.
C36_DetailsOutcome ==
    det.pc = "done" =>
       /\ det.outcome \in {"record", "null"}
       /\ det.outcome = "record" <=> det.account = "mint"
       /\ det.outcome = "record" =>
             /\ det.returned # NoToken
             /\ det.returned.mintDate # NoDate <=> det.lookup = "dated"
       /\ det.outcome = "null" => det.returned = NoToken

\* A record came back although the mint-date lookup failed: it carries no mint date.
C36_Witness ==
    /\ det.pc = "done"
    /\ det.lookup = "failed"
    /\ det.outcome = "record"
    /\ det.returned.mintDate = NoDate
    /\ det.returned.address = "DOGE"

(***************************************************************************)
(* SpecLive: one search (for BONK, which the registry holds, or for MASK,   *)
(* which only the ledger scan finds), or one call of retryWithBackoff,     *)
(* with every remote call answering or failing in the end and every timer  *)
(* firing: a step that is possible is eventually taken.  The retry loops   *)
(* of the search are inside Remote; the loop itself runs attempt by        *)
(* attempt in the behaviours that start from InitRetry.                    *)
(***************************************************************************)
InitLive ==
    \/ InitRetry
    \/ /\ rt = RetryIdle
       /\ cache = <<>>
       /\ clock = 0
       /\ probe = ProbeIdle
       /\ res = ResIdle
       /\ det = DetailsIdle
       /\ fast = FastIdle
       /\ \E q \in {"BONK", "MASK"} :
             srch = [s \in Searches |->
                       IF s = 1 THEN StartSearch("staged", q, "24h") ELSE IdleSearch]

NextLive ==
    \/ NextRetry
    \/ \E plan \in Plans(3), items \in DasResponses(srch[1].query) : DasDone(1, plan, items)
    \/ \E mintPlan \in Plans(2), metaPlan \in Plans(1) : KnownDone(1, 1, mintPlan, metaPlan)
    \/ \E plan \in Plans(2), listing \in { <<"s8">>, <<"s3", "s4", "s5", "s6", "s8">> } :
          ListingDone(1, plan, listing)
    \/ Scan(1)

SpecLive == InitLive /\ [][NextLive]_vars /\ WF_vars(NextLive)

\* What a task may still do: start, have its fetch settle, have each mint resolved.
TaskWork(sr, k) ==
    CASE sr.tasks[k].pc = "idle" -> 4 + Len(TxOf(sr.sigs[k]).mints)
      [] sr.tasks[k].pc = "fetch" -> 1 + Len(TxOf(sr.sigs[k]).mints)
      [] sr.tasks[k].pc = "resolve" -> Len(sr.tasks[k].pending)
      [] OTHER -> 0

RECURSIVE SumWork(_, _)
SumWork(sr, k) == IF k = 0 THEN 0 ELSE TaskWork(sr, k) + SumWork(sr, k - 1)

\* A bound on the steps (remote calls settling, timers firing) a search has left.
SearchWork(sr) ==
    LET scanMax == 7 * (MaxListing + 1) + 3
    IN  CASE sr.pc = "das" -> scanMax + Len(KNOWN_TOKENS) + 2
          [] sr.pc = "known" -> scanMax + Len(sr.knownPending) + 1
          [] sr.pc = "listing" -> scanMax
          [] sr.pc = "awaitGroup" -> SumWork(sr, Len(sr.tasks)) + 2
          [] sr.pc \in {"delay", "awaitTail"} -> SumWork(sr, Len(sr.tasks)) + 1
          [] OTHER -> 0

\* A bound on the steps a call of retryWithBackoff has left.
RetryWork(r) ==
    CASE r.pc = "call" -> 2 * (r.retries - r.i) + 2
      [] r.pc = "sleep" -> 2 * (r.retries - r.i) + 1
      [] OTHER -> 0

\* C37: with every remote call completing, a searchTokens call ends by returning a
\* list or raising, and a retryWithBackoff call by returning or raising; every step
\* uses up a budget fixed by the retry counts and the length of the listing, so the
\* remote attempts are bounded: at most retries + 1 per call, one fetch per listed
\* signature and one resolution per mint of its transaction.
C37_Termination ==
    /\ (srch[1].pc # "idle") ~> (srch[1].pc = "done" /\ srch[1].outcome \in {"returned", "raised"})
    /\ (rt.pc # "idle") ~> (rt.pc = "done" /\ rt.status \in {"returned", "thrown"})
    /\ [](/\ Len(rt.log) <= rt.retries + 1
          /\ Len(srch[1].tasks) = Len(srch[1].sigs)
          /\ SearchWork(srch[1]) >= 0 /\ RetryWork(rt) >= 0)
    /\ [][SearchWork(srch'[1]) + RetryWork(rt') < SearchWork(srch[1]) + RetryWork(rt)]_vars

\* A search has returned after a scan in which a fetch ran out of retries.
C37_Witness ==
    /\ srch[1].pc = "done"
    /\ srch[1].outcome = "returned"
    /\ Len(srch[1].tasks) >= BatchSize * BatchGroup + 1
    /\ \E k \in 1..Len(srch[1].tasks) : srch[1].tasks[k].fetch = "failed"
    /\ \A k \in 1..Len(srch[1].tasks) : srch[1].tasks[k].pc = "done"

=============================================================================
